---- MODULE Spec2Model ----
(***************************************************************************)
(* MDify: the content-injection subsystem.                                 *)
(*                                                                         *)
(*   Spec        the background service worker's delivery workflow         *)
(*               (openAndInject / sendInjectionMessage) against a clock    *)
(*               in milliseconds, with the browser's timers, the tab's     *)
(*               onUpdated events and the content script's replies as the  *)
(*               environment.                                              *)
(*   SpecInject  the content script's injectContent on a destination page: *)
(*               the document, the message and the exceptions the page     *)
(*               raises are the inputs.                                    *)
(***************************************************************************)
EXTENDS Integers, Sequences, FiniteSets, TLC

(***************************************************************************)
(* Program constants (src/src/inject/injector.ts:343-346).                 *)
(***************************************************************************)
REACT_MOUNT_DELAY_MS == 1500
INJECTION_RETRY_DELAY_MS == 1400
MAX_INJECTION_ATTEMPTS == 5
INJECTION_TIMEOUT_MS == 15000

(***************************************************************************)
(* Bounds of the model.                                                    *)
(***************************************************************************)
\* the clock advances by at most this much in one step (never past a
\* pending timer's deadline)
TickMs == 500
\* the longest the tabs.create callback takes to run
MaxCreateLatencyMs == 500
\* the longest a reply to one injectContent message takes to arrive
MaxReplyLatencyMs == 500

Min(a, b) == IF a <= b THEN a ELSE b

(***************************************************************************)
(* InjectionFailureReason ("none" stands for an absent reason).            *)
(***************************************************************************)
NoReason == "none"

ContentFailureReasons ==
    {"no_input_found", "input_not_visible", "input_not_editable", "injection_exception"}

InjectionFailureReason ==
    ContentFailureReasons \cup {"runtime_error", "timeout", "unknown"}

(***************************************************************************)
(* What the callback of chrome.tabs.sendMessage can be called with:        *)
(* chrome.runtime.lastError set, no response object, or the content        *)
(* script's InjectionResult (whose reason may be absent).                  *)
(***************************************************************************)
Replies ==
    {[lastError |-> TRUE, present |-> FALSE, success |-> FALSE, reason |-> NoReason]}
    \cup {[lastError |-> FALSE, present |-> FALSE, success |-> FALSE, reason |-> NoReason]}
    \cup {[lastError |-> FALSE, present |-> TRUE, success |-> TRUE, reason |-> NoReason]}
    \cup {[lastError |-> FALSE, present |-> TRUE, success |-> FALSE, reason |-> r] :
            r \in ContentFailureReasons \cup {NoReason}}

\* a || b on reasons: an absent reason is falsy
OrReason(a, b) == IF a = NoReason THEN b ELSE a

\* sendInjectionMessage without the test of chrome.runtime.lastError
sendInjectionMessageNoLastError(reply) ==
    IF reply.present /\ reply.success
    THEN [success |-> TRUE, reason |-> NoReason]
    ELSE [success |-> FALSE,
          reason |-> OrReason(IF reply.present THEN reply.reason ELSE NoReason, "unknown")]

\* the InjectionAttemptResult sendInjectionMessage resolves with
sendInjectionMessage(reply) ==
    IF reply.lastError
    THEN [success |-> FALSE, reason |-> "runtime_error"]
    ELSE IF reply.present /\ reply.success
         THEN [success |-> TRUE, reason |-> NoReason]
         ELSE [success |-> FALSE,
               reason |-> OrReason(IF reply.present THEN reply.reason ELSE NoReason,
                                   "unknown")]

(***************************************************************************)
(* The injectToPlatform request.                                           *)
(***************************************************************************)
Platforms == {"claude", "chatgpt", "gemini", "grok", "perplexity"}

\* an absent url
NoUrl == "none"

PLATFORM_URLS ==
    [p \in Platforms |->
        CASE p = "claude" -> "https://claude.ai/new"
          [] p = "chatgpt" -> "https://chatgpt.com/"
          [] p = "gemini" -> "https://gemini.google.com/"
          [] p = "grok" -> "https://grok.com/"
          [] p = "perplexity" -> "https://www.perplexity.ai/"]

\* a property every object inherits from Object.prototype
PrototypeKey == "constructor"

\* platform in PLATFORM_URLS: true for the object's own keys and for the
\* keys it inherits
HasProperty(platform) == platform \in DOMAIN PLATFORM_URLS \/ platform = PrototypeKey

\* the platforms a request can name: the five, one that is no property of
\* PLATFORM_URLS, and one that is an inherited property
RequestPlatforms == Platforms \cup {"other", PrototypeKey}

\* what chrome.tabs.create can call back with: no tab, a tab that has no
\* id (id 0 stands for an absent id), a tab with an id
NoTab == [present |-> FALSE, id |-> 0]

CreatedTabs == {NoTab} \cup {[present |-> TRUE, id |-> i] : i \in {0, 1}}

\* no sendMessage callback has run yet
NoReply == [lastError |-> FALSE, present |-> FALSE, success |-> FALSE, reason |-> "no reply"]

VARIABLES
    \* the background service worker
    now,              \* the clock, ms
    pc,               \* where the delivery is: idle, rejected, createThrew,
                      \* creating, crashed,
                      \* waitingForLoad, waitingForRender, attempting,
                      \* retryDelay, done
    requestAt,        \* when openAndInject was called
    tabId,            \* the destination tab's id (0: none)
    listenerOn,       \* the tabs.onUpdated listener is registered
    watchdogPending,  \* the setTimeout(INJECTION_TIMEOUT_MS) timer is pending
    watchdogDeadline, \* when it fires
    loadedAt,         \* when the listener saw status 'complete' (-1: not yet)
    waitPending,      \* a wait(ms) timer of the attempt loop is pending
    waitDeadline,     \* when it fires
    attempt,          \* the loop variable
    lastReason,       \* the loop's lastReason
    settled,          \* the promise's settled flag
    outcome,          \* what the promise resolved with
    settledAt,        \* when
    sent,             \* injectContent messages sent to the tab so far
    inflight,         \* injectContent messages sent and not yet replied to
    sentAt,           \* when the latest one was sent
    results,          \* the success flags of the attempt results so far (history)
    lastResult,       \* the latest attempt result, as sendInjectionMessage
                      \* resolved it (history)
    repliedAt,        \* when the latest reply arrived (history)
    lastReply,        \* what the latest sendMessage callback was called with
                      \* (history)
    request,          \* the platform of the injectToPlatform request
    uiResponses,      \* what sendResponse was called with for the request,
                      \* in order
    \* the content script on the destination page
    dom,              \* the page's document
    message,          \* the injectContent message: [markdown, platform]
    ipc,              \* "waiting" for the message, or "handled"
    call,             \* how the injectContent call ended: its flags, the
                      \* elements whose handler threw, the element injected
    dispatched,       \* the events dispatched on the page's elements, in order
    performed,        \* the steps done on the page's elements, in order
    response,         \* what sendResponse was called with
    \* two deliveries at a time, without the clock
    deliveries,       \* for each call of openAndInject: where it is, its tab,
                      \* its listener, its watchdog, its loop variable, its
                      \* result
    openTabs,         \* the ids of the tabs chrome.tabs.create opened
    completedTabs,    \* the tabs an onUpdated event reported 'complete' for
    completeReports,  \* tab id -> how many times the tab reported 'complete'
    tabMessages,      \* the injectContent messages sent: by which call, to
                      \* which tab, at which attempt
    \* the overlay's preferences: a page with the content script, the
    \* options page and the two storage areas
    dateNow,          \* Date.now()
    ticks,            \* how often the clock has advanced
    storageLocal,     \* chrome.storage.local: for each host the value of
                      \* mdify_temp_close_<host> (0: not stored)
    storageSync,      \* chrome.storage.sync: excludedDomains
    page,             \* the page: its host, where injectFloatingButton and
                      \* the overlay are, what the storage reads returned
    optionsPage,      \* the options page: open or not, its exclusions state
    listWrites,       \* how often a user's action wrote excludedDomains
    seedWrites,       \* how often it was written because none was stored
                      \* (history)
    added,            \* the domains a user added and did not remove (history)
    \* sharing a page: the overlay's menu and the popup
    fab,              \* the overlay: its menu, its button and where the menu
                      \* handler is
    popup,            \* the popup: where init is, currentMarkdown, the
                      \* destination buttons, the requests not yet answered
    clipboard,        \* the text of the clipboard
    pageDoc,          \* the page shared: what Readability makes of its
                      \* document, and whether turndown strips blank ends
    localMin,         \* chrome.storage.local's mdify_min_<host>: its value,
                      \* and what the get of createOverlay will call back with
    userAction,       \* for the overlay and for the popup, of the user
                      \* action under way: the calls of scrapePageToMarkdown,
                      \* the last result, the clipboard writes, the
                      \* injectToPlatform requests and the last answer
                      \* (history)
    \* the token display of the popup
    tokenCount,       \* the count updateUI got from countTokens
    tokenStatus       \* what getTokenStatus made of it

deliverVars == <<now, pc, requestAt, tabId, listenerOn, watchdogPending, watchdogDeadline,
          loadedAt, waitPending, waitDeadline, attempt, lastReason, settled, outcome,
          settledAt, sent, inflight, sentAt, results, lastResult, repliedAt,
          lastReply, request, uiResponses>>

\* what settling the promise changes
settleVars == <<settled, outcome, settledAt, uiResponses>>

injectVars == <<dom, message, ipc, call, dispatched, performed, response>>

pairVars == <<deliveries, openTabs, completedTabs, completeReports, tabMessages>>

overlayVars == <<dateNow, ticks, storageLocal, storageSync, page, optionsPage, listWrites,
                 seedWrites, added>>

shareVars == <<fab, popup, clipboard, pageDoc, localMin, userAction>>

tokenVars == <<tokenCount, tokenStatus>>

vars == <<deliverVars, injectVars, pairVars, overlayVars, shareVars, tokenVars>>

\* what the steps of each part leave alone
notDeliverVars == <<injectVars, pairVars, overlayVars, shareVars, tokenVars>>

notInjectVars == <<deliverVars, pairVars, overlayVars, shareVars, tokenVars>>

notPairVars == <<deliverVars, injectVars, overlayVars, shareVars, tokenVars>>

notOverlayVars == <<deliverVars, injectVars, pairVars, shareVars, tokenVars>>

notShareVars == <<deliverVars, injectVars, pairVars, overlayVars, tokenVars>>

notTokenVars == <<deliverVars, injectVars, pairVars, overlayVars, shareVars>>

NoOutcome == [success |-> FALSE, reason |-> NoReason, attempts |-> 0]

DeliverInit ==
    /\ now = 0
    /\ pc = "idle"
    /\ requestAt = 0
    /\ tabId = 0
    /\ listenerOn = FALSE
    /\ watchdogPending = FALSE
    /\ watchdogDeadline = 0
    /\ loadedAt = -1
    /\ waitPending = FALSE
    /\ waitDeadline = 0
    /\ attempt = 0
    /\ lastReason = "unknown"
    /\ settled = FALSE
    /\ outcome = NoOutcome
    /\ settledAt = 0
    /\ sent = 0
    /\ inflight = 0
    /\ sentAt = 0
    /\ results = <<>>
    /\ lastResult = [success |-> FALSE, reason |-> NoReason]
    /\ repliedAt = 0
    /\ lastReply = NoReply
    /\ request = "claude"
    /\ uiResponses = <<>>

\* handleInjection's return value after openAndInject resolved with result
InjectionResponse(result) ==
    [success |-> result.success, url |-> PLATFORM_URLS[request],
     reason |-> result.reason, attempts |-> result.attempts]

\* handleInjection's return value for a platform that has no URL
UnknownPlatformResponse ==
    [success |-> FALSE, url |-> NoUrl, reason |-> "unknown", attempts |-> 0]

\* handleInjection(...).then(sendResponse): the response goes to the popup
SendResponse(injectionResponse) == uiResponses' = Append(uiResponses, injectionResponse)

\* finish(result): the first call settles the promise, later ones do
\* nothing.  Settling the promise resumes handleInjection, whose return
\* value is passed to sendResponse before any other callback runs.
finish(result) ==
    IF settled
    THEN UNCHANGED settleVars
    ELSE /\ settled' = TRUE
         /\ outcome' = result
         /\ settledAt' = now
         /\ SendResponse(InjectionResponse(result))

\* the four results openAndInject finishes with
CreateFailedOutcome == [success |-> FALSE, reason |-> "runtime_error", attempts |-> 0]

SuccessOutcomeZeroBased(n) == [success |-> TRUE, reason |-> NoReason, attempts |-> n - 1]

SuccessOutcome(n) == [success |-> TRUE, reason |-> NoReason, attempts |-> n]

\* the result after the last attempt, counting the attempts from 0
ExhaustedOutcomeZeroBased(reason) ==
    [success |-> FALSE, reason |-> reason, attempts |-> MAX_INJECTION_ATTEMPTS - 1]

ExhaustedOutcome(reason) ==
    [success |-> FALSE, reason |-> reason, attempts |-> MAX_INJECTION_ATTEMPTS]

TimeoutOutcomeAsExhausted ==
    [success |-> FALSE, reason |-> "timeout", attempts |-> MAX_INJECTION_ATTEMPTS]

TimeoutOutcome == [success |-> FALSE, reason |-> "timeout", attempts |-> 0]

LoopContinuesOffByOne(n) == n <= MAX_INJECTION_ATTEMPTS + 1

\* the for loop's condition
LoopContinues(n) == n <= MAX_INJECTION_ATTEMPTS

\* the condition under which a failed attempt is followed by a retry delay
RetryAfter(n) == n < MAX_INJECTION_ATTEMPTS

KeepFirstReason(prev, attemptResult) ==
    IF prev = "unknown" THEN OrReason(attemptResult.reason, "unknown") ELSE prev

\* lastReason = attemptResult.reason || 'unknown'
NextLastReason(prev, attemptResult) == OrReason(attemptResult.reason, "unknown")

\* chrome.tabs.sendMessage(tabId, {action: 'injectContent', ...})
SendMessage ==
    /\ sent' = sent + 1
    /\ inflight' = inflight + 1
    /\ sentAt' = now

\* the loop goes on without waiting for the reply: the result it reads is
\* a pending promise, which has no success and no reason
NoAwaitReply ==
    /\ pc' = "retryDelay"
    /\ waitPending' = TRUE
    /\ waitDeadline' = now + INJECTION_RETRY_DELAY_MS

\* await sendInjectionMessage(...): the loop is suspended until the reply
AwaitReply ==
    /\ pc' = "attempting"
    /\ waitPending' = FALSE
    /\ UNCHANGED waitDeadline

\* handleInjection returns the pending promise at once, and it is passed to
\* sendResponse
NoAwaitOpenAndInject ==
    /\ SendResponse([success |-> FALSE, url |-> PLATFORM_URLS[request'],
                     reason |-> NoReason, attempts |-> 0])
    /\ UNCHANGED <<settled, outcome, settledAt>>

\* handleInjection does not return, and nothing is passed to sendResponse,
\* while openAndInject is pending
AwaitOpenAndInject == UNCHANGED settleVars

\* openAndInject(request): chrome.tabs.create is called
OpenAndInject ==
    /\ pc' = "creating"
    /\ AwaitOpenAndInject

\* openAndInject with a targetUrl that is no string (the inherited
\* property's value is a function): chrome.tabs.create throws inside the
\* promise's executor, the promise is rejected, handleInjection's await
\* throws, and then(sendResponse) never runs
CreateThrows ==
    /\ pc' = "createThrew"
    /\ UNCHANGED settleVars

\* the onMessage listener of the service worker runs for an
\* injectToPlatform request: handleInjection(platform, markdown)
HandleInjection(platform) ==
    /\ UNCHANGED notDeliverVars
    /\ pc = "idle"
    /\ request' = platform
    /\ requestAt' = now
    /\ IF HasProperty(platform)
       THEN IF platform \in DOMAIN PLATFORM_URLS THEN OpenAndInject ELSE CreateThrows
       ELSE /\ pc' = "rejected"
            /\ SendResponse(UnknownPlatformResponse)
            /\ UNCHANGED <<settled, outcome, settledAt>>
    /\ UNCHANGED <<now, tabId, listenerOn, watchdogPending, watchdogDeadline, loadedAt,
                   waitPending, waitDeadline, attempt, lastReason, sent, inflight, sentAt,
                   results, lastResult, repliedAt, lastReply>>

\* the callback of chrome.tabs.create runs with tab.  Reading tab.id of no
\* tab raises a TypeError, which ends the callback: nothing is registered
\* and finish is not called.
TabCreated(tab) ==
    /\ UNCHANGED notDeliverVars
    /\ pc = "creating"
    /\ tabId' = tab.id
    /\ IF ~tab.present
       THEN /\ pc' = "crashed"
            /\ UNCHANGED settleVars
            /\ UNCHANGED <<listenerOn, watchdogPending, watchdogDeadline>>
       ELSE IF tab.id = 0
            THEN /\ finish(CreateFailedOutcome)
                 /\ pc' = "done"
                 /\ UNCHANGED <<listenerOn, watchdogPending, watchdogDeadline>>
            ELSE /\ listenerOn' = TRUE
                 /\ watchdogPending' = TRUE
                 /\ watchdogDeadline' = now + INJECTION_TIMEOUT_MS
                 /\ pc' = "waitingForLoad"
                 /\ UNCHANGED settleVars
    /\ UNCHANGED <<now, requestAt, loadedAt, waitPending, waitDeadline, attempt,
                   lastReason, sent, inflight, sentAt, results, lastResult, repliedAt,
                   lastReply, request>>

\* wait(ms) with a timer that is due at once
waitZero(ms) ==
    /\ waitPending' = TRUE
    /\ waitDeadline' = now

\* await wait(ms): a timer of ms milliseconds, and the loop suspended on it
wait(ms) ==
    /\ waitPending' = TRUE
    /\ waitDeadline' = now + ms

\* the listener stays registered
KeepListener == UNCHANGED listenerOn

\* chrome.tabs.onUpdated.removeListener(listener)
RemoveListener == listenerOn' = FALSE

\* the tabs.onUpdated listener runs for (updatedTabId, changeInfo.status)
Listener(updatedTabId, status) ==
    /\ UNCHANGED notDeliverVars
    /\ listenerOn
    /\ IF updatedTabId = tabId /\ status = "complete"
       THEN /\ RemoveListener
            /\ watchdogPending' = FALSE
            /\ loadedAt' = now
            /\ wait(REACT_MOUNT_DELAY_MS)
            /\ pc' = "waitingForRender"
       ELSE UNCHANGED <<listenerOn, watchdogPending, loadedAt, waitPending,
                        waitDeadline, pc>>
    /\ UNCHANGED settleVars
    /\ UNCHANGED <<now, requestAt, tabId, watchdogDeadline, attempt, lastReason, sent,
                   inflight, sentAt, results, lastResult, repliedAt, lastReply, request>>

\* a wait(ms) of the attempt loop is over: the loop goes on to its next
\* sendInjectionMessage (the first one after the settle delay)
WaitElapsed ==
    /\ UNCHANGED notDeliverVars
    /\ waitPending
    /\ now = waitDeadline
    /\ LET n == IF pc = "waitingForRender" THEN 1 ELSE attempt + 1
       IN  /\ attempt' = n
           /\ lastReason' = IF pc = "waitingForRender" THEN "unknown" ELSE lastReason
           /\ IF LoopContinues(n)
              THEN /\ SendMessage
                   /\ AwaitReply
                   /\ UNCHANGED settleVars
              ELSE /\ finish(ExhaustedOutcome(lastReason))
                   /\ pc' = "done"
                   /\ waitPending' = FALSE
                   /\ UNCHANGED <<sent, inflight, sentAt, waitDeadline>>
    /\ UNCHANGED <<now, requestAt, tabId, listenerOn, watchdogPending, watchdogDeadline,
                   loadedAt, results, lastResult, repliedAt, lastReply, request>>

\* the callback of chrome.tabs.sendMessage runs with reply, and the loop
\* body after the await runs to its next await
AttemptReply(reply) ==
    /\ UNCHANGED notDeliverVars
    /\ pc = "attempting"
    /\ inflight > 0
    /\ LET attemptResult == sendInjectionMessage(reply)
           reason == NextLastReason(lastReason, attemptResult)
       IN  /\ results' = Append(results, attemptResult.success)
           /\ lastResult' = attemptResult
           /\ repliedAt' = now
           /\ lastReply' = reply
           /\ IF attemptResult.success
              THEN /\ finish(SuccessOutcome(attempt))
                   /\ pc' = "done"
                   /\ inflight' = inflight - 1
                   /\ UNCHANGED <<lastReason, waitPending, waitDeadline, attempt, sent,
                                  sentAt>>
              ELSE /\ lastReason' = reason
                   /\ IF RetryAfter(attempt)
                      THEN /\ wait(INJECTION_RETRY_DELAY_MS)
                           /\ pc' = "retryDelay"
                           /\ inflight' = inflight - 1
                           /\ UNCHANGED <<settled, outcome, settledAt, uiResponses, attempt,
                                          sent, sentAt>>
                      ELSE IF LoopContinues(attempt + 1)
                           THEN /\ attempt' = attempt + 1
                                /\ sent' = sent + 1
                                /\ inflight' = inflight
                                /\ sentAt' = now
                                /\ pc' = "attempting"
                                /\ UNCHANGED <<settled, outcome, settledAt, uiResponses,
                                               waitPending, waitDeadline>>
                           ELSE /\ finish(ExhaustedOutcome(reason))
                                /\ pc' = "done"
                                /\ inflight' = inflight - 1
                                /\ UNCHANGED <<waitPending, waitDeadline, attempt, sent,
                                               sentAt>>
    /\ UNCHANGED <<now, requestAt, tabId, listenerOn, watchdogPending, watchdogDeadline,
                   loadedAt, request>>

\* the fallback timer fires
WatchdogFires ==
    /\ UNCHANGED notDeliverVars
    /\ watchdogPending
    /\ now = watchdogDeadline
    /\ watchdogPending' = FALSE
    /\ RemoveListener
    /\ finish(TimeoutOutcome)
    /\ pc' = IF pc = "waitingForLoad" THEN "done" ELSE pc
    /\ UNCHANGED <<now, requestAt, tabId, watchdogDeadline, loadedAt, waitPending,
                   waitDeadline, attempt, lastReason, sent, inflight, sentAt, results,
                   lastResult, repliedAt, lastReply, request>>

\* the earliest deadline of a pending timer, or cap when none is pending
NextDeadline(cap) ==
    Min(IF watchdogPending THEN watchdogDeadline ELSE cap,
        IF waitPending THEN waitDeadline ELSE cap)

\* time passes, never past the deadline of a pending timer
Tick ==
    /\ UNCHANGED notDeliverVars
    /\ \/ pc = "creating" /\ now - requestAt < MaxCreateLatencyMs
       \/ pc \in {"waitingForLoad", "waitingForRender", "retryDelay"}
       \/ pc = "attempting" /\ now - sentAt < MaxReplyLatencyMs
    /\ now < NextDeadline(now + TickMs)
    /\ now' = NextDeadline(now + TickMs)
    /\ UNCHANGED <<pc, requestAt, tabId, listenerOn, watchdogPending, watchdogDeadline,
                   loadedAt, waitPending, waitDeadline, attempt, lastReason, settled,
                   outcome, settledAt, sent, inflight, sentAt, results, lastResult,
                   repliedAt, lastReply, request, uiResponses>>

DeliverNext ==
    \/ \E platform \in RequestPlatforms : HandleInjection(platform)
    \/ \E tab \in CreatedTabs : TabCreated(tab)
    \/ \E t \in {1, 2}, s \in {"loading", "complete"} : Listener(t, s)
    \/ WaitElapsed
    \/ \E reply \in Replies : AttemptReply(reply)
    \/ WatchdogFires
    \/ Tick

(***************************************************************************)
(* The content script on the destination page: injectContent.              *)
(*                                                                         *)
(* Strings the code inspects (attribute values, the payload) are sequences *)
(* of characters.  The document is the sequence of its elements in         *)
(* document order.                                                         *)
(***************************************************************************)

\* the longest document
MaxElements == 2

S_message == <<"m", "e", "s", "s", "a", "g", "e">>
S_Message == <<"M", "e", "s", "s", "a", "g", "e">>
S_Enter == <<"E", "n", "t", "e", "r">>
S_Ask == <<"A", "s", "k">>
S_ask == <<"a", "s", "k">>
S_promptTextarea == <<"p", "r", "o", "m", "p", "t", "-", "t", "e", "x", "t", "a", "r", "e", "a">>
S_true == <<"t", "r", "u", "e">>

\* String.prototype.includes / the CSS [attr*="sub"] test
Contains(s, sub) ==
    \E i \in 0..(Len(s) - Len(sub)) : SubSeq(s, i + 1, i + Len(sub)) = sub

(***************************************************************************)
(* Selectors.  A compound selector is a tag name and at most one attribute *)
(* test: [attr*="text"] (op "contains"), [attr="text"] or #id (op          *)
(* "equals"), or none (op "any").                                          *)
(***************************************************************************)
Sel(tag, attr, op, text) == [tag |-> tag, attr |-> attr, op |-> op, text |-> text]

TagSel(tag) == Sel(tag, "none", "any", <<>>)

ContentEditableDiv == Sel("DIV", "contenteditable", "equals", S_true)

\* getTextareaSelector(platform): the selectors that are joined with ', '
getTextareaSelector(platform) ==
    CASE platform = "claude" ->
            << Sel("TEXTAREA", "placeholder", "contains", S_message),
               Sel("TEXTAREA", "placeholder", "contains", S_Message),
               ContentEditableDiv,
               Sel("TEXTAREA", "aria-label", "contains", S_message),
               TagSel("TEXTAREA") >>
      [] platform = "chatgpt" ->
            << Sel("TEXTAREA", "placeholder", "contains", S_Message),
               Sel("TEXTAREA", "placeholder", "contains", S_message),
               ContentEditableDiv,
               Sel("TEXTAREA", "id", "equals", S_promptTextarea),
               TagSel("TEXTAREA") >>
      [] platform = "gemini" ->
            << Sel("TEXTAREA", "placeholder", "contains", S_Enter),
               ContentEditableDiv,
               TagSel("RICH-TEXTAREA"),
               TagSel("TEXTAREA") >>
      [] platform = "grok" ->
            << Sel("TEXTAREA", "placeholder", "contains", S_Ask),
               Sel("TEXTAREA", "placeholder", "contains", S_ask),
               ContentEditableDiv,
               TagSel("TEXTAREA") >>
      [] platform = "perplexity" ->
            << Sel("TEXTAREA", "placeholder", "contains", S_Ask),
               ContentEditableDiv,
               TagSel("TEXTAREA") >>
      [] OTHER ->
            << TagSel("TEXTAREA"), ContentEditableDiv >>

(***************************************************************************)
(* Elements.  attrs maps the attributes the code and the selectors read    *)
(* ("contenteditable", "placeholder", "aria-label", "id") to their values, *)
(* <<>> for an absent one.  value is the value of a textarea, and on any   *)
(* other element the script-set property of that name.  child is the       *)
(* element's content: nothing, a text node, or a <pre> holding a text      *)
(* node.                                                                   *)
(***************************************************************************)
Absent == <<>>

\* the value property of an element that is no text control and on which no
\* script has set one
Undefined == <<"undefined">>

\* what the page's input holds before the injection
OldText == <<"o", "l", "d">>

NoChild == [kind |-> "none", text |-> <<>>]

TextChild(text) == [kind |-> "text", text |-> text]

PreChild(text) == [kind |-> "pre", text |-> text]

Attrs(ce, placeholder, ariaLabel, id) ==
    [a \in {"contenteditable", "placeholder", "aria-label", "id"} |->
        CASE a = "contenteditable" -> ce
          [] a = "placeholder" -> placeholder
          [] a = "aria-label" -> ariaLabel
          [] a = "id" -> id]

Element(tag, attrs, visible) ==
    [tag |-> tag, attrs |-> attrs, visible |-> visible,
     value |-> IF tag = "TEXTAREA" THEN OldText ELSE Undefined,
     child |-> IF tag = "TEXTAREA" THEN NoChild ELSE TextChild(OldText),
     color |-> "page"]

TextareaAttrs ==
    { Attrs(Absent, Absent, Absent, Absent),
      Attrs(Absent, S_Ask, Absent, Absent) }

OtherAttrs ==
    { Attrs(Absent, Absent, Absent, Absent),
      Attrs(S_true, Absent, Absent, Absent) }

Elements ==
    {Element("TEXTAREA", a, v) : a \in TextareaAttrs, v \in BOOLEAN}
    \cup {Element(t, a, v) : t \in {"DIV", "RICH-TEXTAREA"}, a \in OtherAttrs, v \in BOOLEAN}
    \cup {Element("INPUT", Attrs(Absent, Absent, Absent, Absent), v) : v \in BOOLEAN}

Documents == UNION {[1..n -> Elements] : n \in 0..MaxElements}

\* the payloads: one line, and two lines with an empty line between them
Payloads == { <<"a">>, <<"#", "\n", "\n", "b">> }

\* Element.matches(selector) for one compound selector
MatchesSelector(el, sel) ==
    /\ el.tag = sel.tag
    /\ CASE sel.op = "any" -> TRUE
         [] sel.op = "equals" -> el.attrs[sel.attr] = sel.text
         [] sel.op = "contains" ->
                el.attrs[sel.attr] # Absent /\ Contains(el.attrs[sel.attr], sel.text)

\* Element.matches(list) for a selector list
MatchesAny(el, selectors) ==
    \E k \in 1..Len(selectors) : MatchesSelector(el, selectors[k])

\* document.querySelectorAll(list): the positions of the matching elements,
\* in document order
RECURSIVE QuerySelectorAllFrom(_, _, _)
QuerySelectorAllFrom(doc, selectors, i) ==
    IF i > Len(doc)
    THEN <<>>
    ELSE (IF MatchesAny(doc[i], selectors) THEN <<i>> ELSE <<>>)
         \o QuerySelectorAllFrom(doc, selectors, i + 1)

querySelectorAll(doc, selectors) == QuerySelectorAllFrom(doc, selectors, 1)

\* textElement.offsetParent !== null
isVisible(el) == el.visible

\* isEditable with every Gemini input counted as editable
isEditableOrRichTextarea(el) ==
    el.attrs["contenteditable"] = S_true \/ el.tag = "TEXTAREA" \/ el.tag = "RICH-TEXTAREA"

\* contenteditable === 'true' || tagName === 'TEXTAREA'
isEditable(el) == el.attrs["contenteditable"] = S_true \/ el.tag = "TEXTAREA"

\* tagName === 'DIV' && getAttribute('contenteditable') === 'true'
IsContentEditableDiv(el) == el.tag = "DIV" /\ el.attrs["contenteditable"] = S_true

(***************************************************************************)
(* Events.  data is the event's data, NoData when the event has none.      *)
(***************************************************************************)
NoData == <<"null">>

Ev(type, data) == [type |-> type, data |-> data]

\* ReactEvents with keyup dispatched with the other key events
ReactEventsKeyupFirst(value) ==
    << Ev("focus", NoData), Ev("keydown", NoData), Ev("keypress", NoData),
       Ev("keyup", NoData), Ev("beforeinput", value), Ev("input", NoData),
       Ev("change", NoData), Ev("input", NoData) >>

\* the events dispatchReactInputEvents dispatches, in order
ReactEvents(value) ==
    << Ev("focus", NoData), Ev("keydown", NoData), Ev("keypress", NoData),
       Ev("beforeinput", value), Ev("input", NoData), Ev("change", NoData),
       Ev("keyup", NoData), Ev("input", NoData) >>

\* EditableEvents with a beforeinput event that has no data
EditableEventsNoData(markdown) ==
    << Ev("focus", NoData), Ev("beforeinput", NoData), Ev("input", NoData),
       Ev("change", NoData) >>

\* the events the three contenteditable handlers dispatch, in order
EditableEvents(markdown) ==
    << Ev("focus", NoData), Ev("beforeinput", markdown), Ev("input", NoData),
       Ev("change", NoData) >>

(***************************************************************************)
(* Steps: what a handler does to its element, in program order.  A step is *)
(* a method call (op "call"), an assignment to a property (op "set", data  *)
(* the value assigned) or a dispatchEvent (op "dispatchEvent", what the    *)
(* event's type).                                                          *)
(***************************************************************************)
Step(op, what, data) == [op |-> op, what |-> what, data |-> data]

CallStep(method) == Step("call", method, NoData)

SetStep(property, data) == Step("set", property, data)

\* events.forEach(event => element.dispatchEvent(event))
DispatchSteps(events) ==
    [k \in 1..Len(events) |-> Step("dispatchEvent", events[k].type, events[k].data)]

(***************************************************************************)
(* The handlers.  Each is called with the element, the payload and where   *)
(* (if anywhere) the call raises an exception: "never", "beforeWrite"      *)
(* (at focus(), nothing is changed yet) or "afterWrite" (at the first      *)
(* dispatchEvent, the element is already written).  Each returns the       *)
(* element as the call leaves it, the steps done, the events dispatched    *)
(* and whether it threw.  before are the steps up to the first             *)
(* dispatchEvent, after the ones that follow the last.                     *)
(***************************************************************************)
Faults == {"never", "beforeWrite", "afterWrite"}

Outcome(el, written, before, events, after, fault) ==
    CASE fault = "beforeWrite" ->
            [el |-> el, steps |-> <<>>, events |-> <<>>, threw |-> TRUE]
      [] fault = "afterWrite" ->
            [el |-> written, steps |-> before, events |-> <<>>, threw |-> TRUE]
      [] OTHER ->
            [el |-> written, steps |-> before \o DispatchSteps(events) \o after,
             events |-> events, threw |-> FALSE]

\* input.focus(); input.value = value
ReactBefore(value) == << CallStep("focus"), SetStep("value", value) >>

\* div.blur(); setTimeout(() => div.focus(), 0)
BlurAndRefocus == << CallStep("blur"), CallStep("setTimeout(focus)") >>

\* dispatchReactInputEvents(element, value)
dispatchReactInputEvents(el, value, fault) ==
    Outcome(el, [el EXCEPT !.value = value], ReactBefore(value), ReactEvents(value),
            <<>>, fault)

\* injectIntoContentEditable(div, markdown)
injectIntoContentEditable(el, markdown, fault) ==
    Outcome(el, [el EXCEPT !.child = PreChild(markdown)],
            << CallStep("focus"), SetStep("innerHTML", <<>>),
               SetStep("pre.textContent", markdown), CallStep("appendChild(pre)") >>,
            EditableEvents(markdown), BlurAndRefocus, fault)

\* injectIntoChatGPT(div, markdown)
injectIntoChatGPT(el, markdown, fault) ==
    Outcome(el, [el EXCEPT !.child = TextChild(markdown)],
            << CallStep("focus"), SetStep("innerHTML", <<>>),
               SetStep("textContent", markdown) >>,
            EditableEvents(markdown), BlurAndRefocus, fault)

\* injectIntoGemini(element, markdown)
injectIntoGemini(el, markdown, fault) ==
    IF IsContentEditableDiv(el)
    THEN Outcome(el, [el EXCEPT !.child = TextChild(markdown), !.color = "inherit"],
                 << CallStep("focus"), SetStep("innerHTML", <<>>),
                    SetStep("textContent", markdown), SetStep("style.color", <<>>) >>,
                 EditableEvents(markdown), <<>>, fault)
    ELSE Outcome(el, [el EXCEPT !.value = markdown],
                 << CallStep("focus"), SetStep("value", markdown) >> \o ReactBefore(markdown),
                 ReactEvents(markdown), <<>>, fault)

\* RunHandler without the branch for ChatGPT
RunHandlerNoChatGPT(platform, el, markdown, fault) ==
    IF platform = "gemini"
    THEN injectIntoGemini(el, markdown, fault)
    ELSE IF IsContentEditableDiv(el)
         THEN injectIntoContentEditable(el, markdown, fault)
         ELSE dispatchReactInputEvents(el, markdown, fault)

\* the handler the try block of injectContent calls for (platform, element)
RunHandler(platform, el, markdown, fault) ==
    IF platform = "chatgpt" /\ IsContentEditableDiv(el)
    THEN injectIntoChatGPT(el, markdown, fault)
    ELSE IF platform = "gemini"
         THEN injectIntoGemini(el, markdown, fault)
         ELSE IF IsContentEditableDiv(el)
              THEN injectIntoContentEditable(el, markdown, fault)
              ELSE dispatchReactInputEvents(el, markdown, fault)

\* what the exception of a handler does: the handler runs outside any try
\* block, and the exception leaves injectContent
NotCaught(threw) == "escapes"

\* try { ... } catch (error) { hadInjectionError = true }
Catch(threw) == "caught"

\* the result of the check elements.length === 0
NoMatchWhenNoneVisible(doc, matches) ==
    \A k \in 1..Len(matches) : ~isVisible(doc[matches[k]])

NoMatch(doc, matches) == Len(matches) = 0

(***************************************************************************)
(* injectContent(markdown, platform) on document doc, where faults[i] says *)
(* where a handler called on element i raises.  The loop state st holds    *)
(* the document, the events dispatched so far (with their target), the     *)
(* three flags, the elements whose handler threw, and, once the function   *)
(* has returned or an exception has left it, the result.                   *)
(***************************************************************************)
Success == [success |-> TRUE, reason |-> NoReason]

Failure(reason) == [success |-> FALSE, reason |-> reason]

LoopStart(doc) ==
    [doc |-> doc, events |-> <<>>, steps |-> <<>>, foundVisibleElement |-> FALSE,
     foundVisibleEditableElement |-> FALSE, hadInjectionError |-> FALSE,
     threwAt |-> {}, target |-> 0, returned |-> FALSE, escaped |-> FALSE,
     result |-> Failure(NoReason)]

Targeted(events, i) ==
    [k \in 1..Len(events) |-> [target |-> i, type |-> events[k].type, data |-> events[k].data]]

\* the steps of a handler, as done on element i
TargetedSteps(steps, i) ==
    [k \in 1..Len(steps) |->
        [target |-> i, op |-> steps[k].op, what |-> steps[k].what, data |-> steps[k].data]]

\* one iteration of the for loop, on element i
LoopBody(st, i, platform, markdown, fault) ==
    LET el == st.doc[i]
    IN  IF ~isVisible(el)
        THEN st
        ELSE IF ~isEditable(el)
             THEN [st EXCEPT !.foundVisibleElement = TRUE]
             ELSE LET r == RunHandler(platform, el, markdown, fault)
                      seen == [st EXCEPT !.foundVisibleElement = TRUE,
                                         !.foundVisibleEditableElement = TRUE,
                                         !.doc[i] = r.el,
                                         !.events = st.events \o Targeted(r.events, i),
                                         !.steps = st.steps \o TargetedSteps(r.steps, i)]
                  IN  IF ~r.threw
                      THEN [seen EXCEPT !.returned = TRUE, !.target = i, !.result = Success]
                      ELSE IF Catch(r.threw) = "caught"
                           THEN [seen EXCEPT !.hadInjectionError = TRUE,
                                             !.threwAt = st.threwAt \cup {i}]
                           ELSE [seen EXCEPT !.escaped = TRUE,
                                             !.threwAt = st.threwAt \cup {i}]

\* the for loop over the matches, from the k-th on
RECURSIVE Loop(_, _, _, _, _, _)
Loop(st, matches, k, platform, markdown, faults) ==
    IF k > Len(matches) \/ st.returned \/ st.escaped
    THEN st
    ELSE Loop(LoopBody(st, matches[k], platform, markdown, faults[matches[k]]),
              matches, k + 1, platform, markdown, faults)

\* AfterLoop with the two flags tested in the other order
AfterLoopEditableFirst(st) ==
    IF st.returned \/ st.escaped
    THEN st
    ELSE [st EXCEPT !.returned = TRUE,
                    !.result =
                        IF ~st.foundVisibleEditableElement
                        THEN Failure("input_not_editable")
                        ELSE IF ~st.foundVisibleElement
                             THEN Failure("input_not_visible")
                             ELSE Failure("injection_exception")]

\* AfterLoop with the last return giving the reason of the one before it
AfterLoopWrongReason(st) ==
    IF st.returned \/ st.escaped
    THEN st
    ELSE [st EXCEPT !.returned = TRUE,
                    !.result =
                        IF ~st.foundVisibleElement
                        THEN Failure("input_not_visible")
                        ELSE Failure("input_not_editable")]

\* the statements after the loop
AfterLoop(st) ==
    IF st.returned \/ st.escaped
    THEN st
    ELSE [st EXCEPT !.returned = TRUE,
                    !.result =
                        IF ~st.foundVisibleElement
                        THEN Failure("input_not_visible")
                        ELSE IF ~st.foundVisibleEditableElement
                             THEN Failure("input_not_editable")
                             ELSE Failure("injection_exception")]

injectContent(doc, markdown, platform, faults) ==
    LET matches == querySelectorAll(doc, getTextareaSelector(platform))
    IN  IF NoMatch(doc, matches)
        THEN [LoopStart(doc) EXCEPT !.returned = TRUE, !.result = Failure("no_input_found")]
        ELSE AfterLoop(Loop(LoopStart(doc), matches, 1, platform, markdown, faults))

NoResponse == [success |-> FALSE, reason |-> "no response"]

\* what the call variable keeps of the loop state
CallOf(st) ==
    [foundVisibleElement |-> st.foundVisibleElement,
     foundVisibleEditableElement |-> st.foundVisibleEditableElement,
     hadInjectionError |-> st.hadInjectionError,
     threwAt |-> st.threwAt, target |-> st.target,
     returned |-> st.returned, escaped |-> st.escaped]

\* the elements a handler can be called on: the visible, editable matches
Candidates(doc, platform) ==
    {i \in 1..Len(doc) : /\ MatchesAny(doc[i], getTextareaSelector(platform))
                         /\ isVisible(doc[i])
                         /\ isEditable(doc[i])}

\* the page as the content script finds it, and the message on its way
InjectInit ==
    /\ dom \in Documents
    /\ message \in [markdown : Payloads, platform : Platforms \cup {"other"}]
    /\ ipc = "waiting"
    /\ call = CallOf(LoopStart(dom))
    /\ dispatched = <<>>
    /\ performed = <<>>
    /\ response = NoResponse

\* no destination page
InjectIdle ==
    /\ dom = <<>>
    /\ message = [markdown |-> <<"a">>, platform |-> "claude"]
    /\ ipc = "idle"
    /\ call = CallOf(LoopStart(<<>>))
    /\ dispatched = <<>>
    /\ performed = <<>>
    /\ response = NoResponse

\* the chrome.runtime.onMessage listener of the content script runs for the
\* injectContent message; a handler called on element i raises as faults[i]
\* says
OnInjectMessage(faults) ==
    /\ ipc = "waiting"
    /\ LET st == injectContent(dom, message.markdown, message.platform, faults)
       IN  /\ call' = CallOf(st)
           /\ dom' = st.doc
           /\ dispatched' = st.events
           /\ performed' = st.steps
           /\ response' = IF st.escaped THEN NoResponse ELSE st.result
    /\ ipc' = "handled"
    /\ UNCHANGED message
    /\ UNCHANGED notInjectVars

(***************************************************************************)
(* Two calls of openAndInject at a time.  Each call has its own closure    *)
(* (tabId, settled, the listener, the watchdog); the browser is shared: it *)
(* gives every new tab a fresh id and runs every registered onUpdated      *)
(* listener for every tab's events.  Time is left out: a pending timer may *)
(* fire at any moment.                                                     *)
(***************************************************************************)
Calls == {1, 2}

\* the id of a tab no call opened
ForeignTab == Cardinality(Calls) + 1

\* how many 'complete' events of one tab are followed
MaxReports == 2

\* loopStarts counts the runs of the listener that started the settle delay
\* and the attempt loop
NewDelivery ==
    [pc |-> "idle", tabId |-> 0, listenerOn |-> FALSE, watchdogPending |-> FALSE,
     attempt |-> 0, lastReason |-> "unknown", settled |-> FALSE, outcome |-> NoOutcome,
     loopStarts |-> 0]

PairInit ==
    /\ deliveries = [c \in Calls |-> NewDelivery]
    /\ openTabs = {}
    /\ completedTabs = {}
    /\ completeReports = [t \in 1..ForeignTab |-> 0]
    /\ tabMessages = {}

\* finish(result) of the call whose state is d
FinishOf(d, result) ==
    IF d.settled THEN d ELSE [d EXCEPT !.settled = TRUE, !.outcome = result]

\* the listener's test without the comparison of the tab ids
ListenerMatchesAnyTab(d, updatedTabId, status) == status = "complete"

\* updatedTabId === tabId && changeInfo.status === 'complete'
ListenerMatches(d, updatedTabId, status) ==
    updatedTabId = d.tabId /\ status = "complete"

\* the listener saw 'complete' for its tab and stays registered
LoopStartedKeepingListener(d) ==
    [d EXCEPT !.watchdogPending = FALSE, !.pc = "waitingForRender",
              !.loopStarts = @ + 1]

\* the listener saw 'complete' for its tab: it removes itself, clears the
\* watchdog and starts the settle delay and the attempt loop
LoopStarted(d) ==
    [d EXCEPT !.listenerOn = FALSE, !.watchdogPending = FALSE,
              !.pc = "waitingForRender", !.loopStarts = @ + 1]

\* openAndInject is called for call c
PairOpenAndInject(c) ==
    /\ UNCHANGED notPairVars
    /\ deliveries[c].pc = "idle"
    /\ deliveries' = [deliveries EXCEPT ![c].pc = "creating"]
    /\ UNCHANGED <<openTabs, completedTabs, completeReports, tabMessages>>

\* the callback of chrome.tabs.create of call c runs: with a new tab, with
\* a tab that has no id, or with no tab
PairTabCreated(c, created) ==
    /\ UNCHANGED notPairVars
    /\ deliveries[c].pc = "creating"
    /\ LET d == deliveries[c]
           id == Cardinality(openTabs) + 1
       IN  CASE created = "tab" ->
                  /\ openTabs' = openTabs \cup {id}
                  /\ deliveries' = [deliveries EXCEPT ![c] =
                        [d EXCEPT !.tabId = id, !.listenerOn = TRUE,
                                  !.watchdogPending = TRUE, !.pc = "waitingForLoad"]]
            [] created = "noId" ->
                  /\ deliveries' = [deliveries EXCEPT ![c] =
                        [FinishOf(d, CreateFailedOutcome) EXCEPT !.pc = "done"]]
                  /\ UNCHANGED openTabs
            [] OTHER ->
                  /\ deliveries' = [deliveries EXCEPT ![c].pc = "crashed"]
                  /\ UNCHANGED openTabs
    /\ UNCHANGED <<completedTabs, completeReports, tabMessages>>

\* chrome.tabs.onUpdated fires for (updatedTabId, status): every registered
\* listener runs
PairOnUpdated(updatedTabId, status) ==
    /\ UNCHANGED notPairVars
    /\ IF status = "complete"
       THEN completeReports[updatedTabId] < MaxReports
       ELSE \E c \in Calls : deliveries[c].listenerOn
    /\ deliveries' =
          [c \in Calls |->
              LET d == deliveries[c]
              IN  IF d.listenerOn /\ ListenerMatches(d, updatedTabId, status)
                  THEN LoopStarted(d)
                  ELSE d]
    /\ completedTabs' = IF status = "complete"
                        THEN completedTabs \cup {updatedTabId}
                        ELSE completedTabs
    /\ completeReports' = IF status = "complete"
                          THEN [completeReports EXCEPT ![updatedTabId] = @ + 1]
                          ELSE completeReports
    /\ UNCHANGED <<openTabs, tabMessages>>

\* a wait(ms) of call c is over: its next injectContent message is sent to
\* its tab
PairWaitElapsed(c) ==
    /\ UNCHANGED notPairVars
    /\ deliveries[c].pc \in {"waitingForRender", "retryDelay"}
    /\ LET d == deliveries[c]
           n == d.attempt + 1
       IN  /\ deliveries' = [deliveries EXCEPT ![c] =
                 [d EXCEPT !.attempt = n, !.pc = "attempting"]]
           /\ tabMessages' = tabMessages \cup
                 {[call |-> c, tab |-> d.tabId, attempt |-> n]}
    /\ UNCHANGED <<openTabs, completedTabs, completeReports>>

\* the callback of chrome.tabs.sendMessage of call c runs with reply
PairAttemptReply(c, reply) ==
    /\ UNCHANGED notPairVars
    /\ deliveries[c].pc = "attempting"
    /\ LET d == deliveries[c]
           attemptResult == sendInjectionMessage(reply)
           reason == NextLastReason(d.lastReason, attemptResult)
       IN  deliveries' = [deliveries EXCEPT ![c] =
              IF attemptResult.success
              THEN [FinishOf(d, SuccessOutcome(d.attempt)) EXCEPT !.pc = "done"]
              ELSE IF RetryAfter(d.attempt)
                   THEN [d EXCEPT !.lastReason = reason, !.pc = "retryDelay"]
                   ELSE [FinishOf(d, ExhaustedOutcome(reason))
                            EXCEPT !.lastReason = reason, !.pc = "done"]]
    /\ UNCHANGED <<openTabs, completedTabs, completeReports, tabMessages>>

\* the fallback timer of call c fires
PairWatchdogFires(c) ==
    /\ UNCHANGED notPairVars
    /\ deliveries[c].watchdogPending
    /\ deliveries' = [deliveries EXCEPT ![c] =
          [FinishOf(deliveries[c], TimeoutOutcome)
              EXCEPT !.watchdogPending = FALSE, !.listenerOn = FALSE, !.pc = "done"]]
    /\ UNCHANGED <<openTabs, completedTabs, completeReports, tabMessages>>

\* the replies of the content script the two calls are run with
PairReplies == {reply \in Replies : reply.lastError \/ (reply.present /\ reply.success)}

PairNext ==
    \/ \E c \in Calls : PairOpenAndInject(c)
    \/ \E c \in Calls, created \in {"tab", "noId", "noTab"} : PairTabCreated(c, created)
    \/ \E t \in openTabs \cup {ForeignTab}, s \in {"loading", "complete"} : PairOnUpdated(t, s)
    \/ \E c \in Calls : PairWaitElapsed(c)
    \/ \E c \in Calls, reply \in PairReplies : PairAttemptReply(c, reply)
    \/ \E c \in Calls : PairWatchdogFires(c)

\* no second delivery
PairIdle == PairInit

(***************************************************************************)
(* The overlay's preferences (src/src/content/script.ts, injectFloating-   *)
(* Button and the close menu; src/src/options/options.tsx).  A             *)
(* chrome.storage get returns the value stored when it was called, and its *)
(* callback runs in a later turn; a set stores at once, and its callback   *)
(* runs in a later turn.  Host names and list entries are character        *)
(* sequences.                                                              *)
(***************************************************************************)
\* the cooldown of 'close once', ms
TempCloseWindowMs == 600000

\* the clock advances at most this often
MaxTicks == 1

\* a user's actions write excludedDomains at most this often
MaxListWrites == 2

D_x == <<"x", ".", "c", "o", "m">>

\* DEFAULT_EXCLUDED_DOMAINS of the content script: of its thirty entries
\* the one the hosts of the model contain
DEFAULT_EXCLUDED_DOMAINS == << D_x >>

\* DEFAULT_EXCLUSIONS of the options page: the same entry
DEFAULT_EXCLUSIONS == << D_x >>

aiPlatforms ==
    << <<"c", "l", "a", "u", "d", "e", ".", "a", "i">>,
       <<"c", "h", "a", "t", "g", "p", "t", ".", "c", "o", "m">>,
       <<"g", "e", "m", "i", "n", "i", ".", "g", "o", "o", "g", "l", "e", ".", "c", "o", "m">>,
       <<"g", "r", "o", "k", ".", "c", "o", "m">>,
       <<"p", "e", "r", "p", "l", "e", "x", "i", "t", "y", ".", "a", "i">> >>

\* the hosts of the pages: a.org, x.com.au and claude.ai
H_org == <<"a", ".", "o", "r", "g">>
H_au == <<"x", ".", "c", "o", "m", ".", "a", "u">>
H_claude == <<"c", "l", "a", "u", "d", "e", ".", "a", "i">>

Hosts == {H_org, H_au, H_claude}

\* what a user types into the options page: b.io, " B.io", bio, nothing
AddInputs ==
    { <<"b", ".", "i", "o">>, <<" ", "B", ".", "i", "o">>, <<"b", "i", "o">>, <<>> }

\* array.some(x => x === item), array.includes(item)
Includes(list, item) == \E k \in 1..Len(list) : list[k] = item

\* list.some(entry => currentHost.includes(entry))
SomeIncluded(list, currentHost) ==
    \E k \in 1..Len(list) : Contains(currentHost, list[k])

\* String.prototype.trim and toLowerCase, on the characters of AddInputs
RECURSIVE TrimStart(_)
TrimStart(str) ==
    IF str # <<>> /\ Head(str) = " " THEN TrimStart(Tail(str)) ELSE str

RECURSIVE TrimEnd(_)
TrimEnd(str) ==
    IF str # <<>> /\ str[Len(str)] = " " THEN TrimEnd(SubSeq(str, 1, Len(str) - 1)) ELSE str

Trim(str) == TrimEnd(TrimStart(str))

ToLowerCase(str) == [k \in 1..Len(str) |-> IF str[k] = "B" THEN "b" ELSE str[k]]

\* the value of excludedDomains: not stored, or a list
NoList == [present |-> FALSE, list |-> <<>>]

StoredList(list) == [present |-> TRUE, list |-> list]

\* result.excludedDomains || fallback
ListOr(result, fallback) == IF result.present THEN result.list ELSE fallback

\* the test of the cooldown with the end of the window inside it
TempClosedInclusive(tempCloseTime, nowRead) ==
    tempCloseTime # 0 /\ nowRead - tempCloseTime <= TempCloseWindowMs

\* if (tempCloseTime) { if (now - tempCloseTime < 600000) return; }
TempClosed(tempCloseTime, nowRead) ==
    tempCloseTime # 0 /\ nowRead - tempCloseTime < TempCloseWindowMs

NoPage ==
    [host |-> H_org, phase |-> "none", tempCloseTime |-> 0, checkedAt |-> 0,
     result |-> NoList]

ClosedOptions == [open |-> FALSE, loading |-> FALSE, exclusions |-> <<>>, result |-> NoList]

OverlayInit ==
    /\ dateNow = 1
    /\ ticks = 0
    /\ storageLocal = [h \in Hosts |-> 0]
    /\ storageSync = NoList
    /\ page = NoPage
    /\ optionsPage = ClosedOptions
    /\ listWrites = 0
    /\ seedWrites = 0
    /\ added = {}

\* chrome.storage.sync.set({excludedDomains: list}), of a user's action
SyncSet(list) ==
    /\ storageSync' = StoredList(list)
    /\ listWrites' = listWrites + 1

\* a page of host h is loaded and its content script calls
\* injectFloatingButton: nothing more on an AI platform, else the read of
\* the 'close once' time
PageLoad(h) ==
    /\ UNCHANGED notOverlayVars
    /\ page.phase \in {"none", "aiPlatform", "hiddenOnce", "hiddenExcluded", "shown",
                       "removed"}
    /\ page' = IF SomeIncluded(aiPlatforms, h)
               THEN [NoPage EXCEPT !.host = h, !.phase = "aiPlatform"]
               ELSE [NoPage EXCEPT !.host = h, !.phase = "localGet",
                                   !.tempCloseTime = storageLocal[h]]
    /\ UNCHANGED <<dateNow, ticks, storageLocal, storageSync, optionsPage, listWrites,
                   seedWrites, added>>

\* the callback of chrome.storage.local.get: the cooldown test, and the
\* read of excludedDomains
LocalGetCallback ==
    /\ UNCHANGED notOverlayVars
    /\ page.phase = "localGet"
    /\ page' = IF TempClosed(page.tempCloseTime, dateNow)
               THEN [NoPage EXCEPT !.host = page.host, !.phase = "hiddenOnce"]
               ELSE [page EXCEPT !.phase = "syncGet", !.checkedAt = dateNow,
                                 !.result = storageSync]
    /\ UNCHANGED <<dateNow, ticks, storageLocal, storageSync, optionsPage, listWrites,
                   seedWrites, added>>

\* the callback of chrome.storage.sync.get: the exclusion test, and
\* createOverlay
SyncGetCallback ==
    /\ UNCHANGED notOverlayVars
    /\ page.phase = "syncGet"
    /\ LET excludedDomains == ListOr(page.result, DEFAULT_EXCLUDED_DOMAINS)
       IN  page' = [NoPage EXCEPT !.host = page.host,
                                  !.phase = IF SomeIncluded(excludedDomains, page.host)
                                            THEN "hiddenExcluded"
                                            ELSE "shown"]
    /\ UNCHANGED <<dateNow, ticks, storageLocal, storageSync, optionsPage, listWrites,
                   seedWrites, added>>

\* the close menu, 'close-once': the time is stored
CloseOnce ==
    /\ UNCHANGED notOverlayVars
    /\ page.phase = "shown"
    /\ storageLocal' = [storageLocal EXCEPT ![page.host] = dateNow]
    /\ page' = [page EXCEPT !.phase = "closingOnce"]
    /\ UNCHANGED <<dateNow, ticks, storageSync, optionsPage, listWrites, seedWrites, added>>

\* the close menu, 'close-always': excludedDomains is read
CloseAlways ==
    /\ UNCHANGED notOverlayVars
    /\ page.phase = "shown"
    /\ page' = [page EXCEPT !.phase = "closeAlwaysGet", !.result = storageSync]
    /\ UNCHANGED <<dateNow, ticks, storageLocal, storageSync, optionsPage, listWrites,
                   seedWrites, added>>

\* the callback of that read: the host is appended and the list stored,
\* unless the list has it
CloseAlwaysCallback ==
    /\ UNCHANGED notOverlayVars
    /\ page.phase = "closeAlwaysGet"
    /\ LET excluded == ListOr(page.result, <<>>)
       IN  IF ~Includes(excluded, page.host)
           THEN /\ listWrites < MaxListWrites
                /\ SyncSet(Append(excluded, page.host))
                /\ added' = added \cup {page.host}
                /\ page' = [page EXCEPT !.phase = "closingAlways", !.result = NoList]
           ELSE /\ page' = [page EXCEPT !.phase = "removed", !.result = NoList]
                /\ UNCHANGED <<storageSync, listWrites, added>>
    /\ UNCHANGED <<dateNow, ticks, storageLocal, optionsPage, seedWrites>>

\* the callback of a set of the close menu: root.remove()
CloseCallback ==
    /\ UNCHANGED notOverlayVars
    /\ page.phase \in {"closingOnce", "closingAlways"}
    /\ page' = [page EXCEPT !.phase = "removed"]
    /\ UNCHANGED <<dateNow, ticks, storageLocal, storageSync, optionsPage, listWrites,
                   seedWrites, added>>

\* the options page is opened: useEffect reads excludedDomains
OptionsOpen ==
    /\ UNCHANGED notOverlayVars
    /\ ~optionsPage.open
    /\ optionsPage' = [open |-> TRUE, loading |-> TRUE, exclusions |-> <<>>,
                       result |-> storageSync]
    /\ UNCHANGED <<dateNow, ticks, storageLocal, storageSync, page, listWrites,
                   seedWrites, added>>

\* the callback of that read: the stored list becomes the state, or the
\* defaults do and are stored
OptionsLoaded ==
    /\ UNCHANGED notOverlayVars
    /\ optionsPage.open
    /\ optionsPage.loading
    /\ IF optionsPage.result.present
       THEN /\ optionsPage' = [optionsPage EXCEPT !.loading = FALSE, !.result = NoList,
                                                  !.exclusions = optionsPage.result.list]
            /\ UNCHANGED <<storageSync, listWrites, seedWrites>>
       ELSE /\ optionsPage' = [optionsPage EXCEPT !.loading = FALSE, !.result = NoList,
                                                  !.exclusions = DEFAULT_EXCLUSIONS]
            /\ storageSync' = StoredList(DEFAULT_EXCLUSIONS)
            /\ seedWrites' = seedWrites + 1
            /\ UNCHANGED listWrites
    /\ UNCHANGED <<dateNow, ticks, storageLocal, page, added>>

\* saveExclusions(updatedList)
saveExclusions(updatedList) ==
    /\ listWrites < MaxListWrites
    /\ optionsPage' = [optionsPage EXCEPT !.exclusions = updatedList]
    /\ SyncSet(updatedList)

\* addDomain with newDomain typed (the status line is left out: an input
\* that is refused changes nothing else)
AddDomain(newDomain) ==
    /\ UNCHANGED notOverlayVars
    /\ optionsPage.open
    /\ LET domain == ToLowerCase(Trim(newDomain))
       IN  IF \/ domain = <<>>
              \/ Includes(optionsPage.exclusions, domain)
              \/ ~Contains(domain, <<".">>)
              \/ Contains(domain, <<" ">>)
           THEN UNCHANGED <<optionsPage, storageSync, listWrites, added>>
           ELSE /\ saveExclusions(<<domain>> \o optionsPage.exclusions)
                /\ added' = added \cup {domain}
    /\ UNCHANGED <<dateNow, ticks, storageLocal, page, seedWrites>>

\* removeDomain(domainToRemove), by the button of an entry shown
RemoveDomain(domainToRemove) ==
    /\ UNCHANGED notOverlayVars
    /\ optionsPage.open
    /\ Includes(optionsPage.exclusions, domainToRemove)
    /\ saveExclusions(SelectSeq(optionsPage.exclusions, LAMBDA d : d # domainToRemove))
    /\ added' = added \ {domainToRemove}
    /\ UNCHANGED <<dateNow, ticks, storageLocal, page, seedWrites>>

\* resetDefaults, confirmed
ResetDefaults ==
    /\ UNCHANGED notOverlayVars
    /\ optionsPage.open
    /\ saveExclusions(DEFAULT_EXCLUSIONS)
    /\ added' = {}
    /\ UNCHANGED <<dateNow, ticks, storageLocal, page, seedWrites>>

\* the options page is closed
OptionsClose ==
    /\ UNCHANGED notOverlayVars
    /\ optionsPage.open
    /\ optionsPage' = ClosedOptions
    /\ UNCHANGED <<dateNow, ticks, storageLocal, storageSync, page, listWrites,
                   seedWrites, added>>

\* time passes: the cooldown, or a millisecond less
ClockAdvances(ms) ==
    /\ UNCHANGED notOverlayVars
    /\ ticks < MaxTicks
    /\ ticks' = ticks + 1
    /\ dateNow' = dateNow + ms
    /\ UNCHANGED <<storageLocal, storageSync, page, optionsPage, listWrites, seedWrites, added>>

\* the domains the options page or the storage holds
KnownDomains ==
    {optionsPage.exclusions[k] : k \in 1..Len(optionsPage.exclusions)}

OverlayNext ==
    \/ \E h \in Hosts : PageLoad(h)
    \/ LocalGetCallback
    \/ SyncGetCallback
    \/ CloseOnce
    \/ CloseAlways
    \/ CloseAlwaysCallback
    \/ CloseCallback
    \/ OptionsOpen
    \/ OptionsLoaded
    \/ \E newDomain \in AddInputs : AddDomain(newDomain)
    \/ \E d \in KnownDomains : RemoveDomain(d)
    \/ ResetDefaults
    \/ OptionsClose
    \/ \E ms \in {TempCloseWindowMs - 1, TempCloseWindowMs} : ClockAdvances(ms)

\* no page and no options page
OverlayIdle == OverlayInit

(***************************************************************************)
(* Sharing a page: scrapePageToMarkdown, the menu of the overlay and the   *)
(* popup.  A text is a sequence of tokens: a tag, a letter, a blank.       *)
(***************************************************************************)
\* article.content has at most this many tokens
MaxContentLen == 1

Tags == {"<p>"}

Tokens == Tags \cup {"a", " "}

Contents == UNION {[1..n -> Tokens] : n \in 0..MaxContentLen}

\* what Readability makes of the document: an exception, no article, or an
\* article with a content
Docs ==
    {[throws |-> TRUE, hasArticle |-> FALSE, content |-> <<>>],
     [throws |-> FALSE, hasArticle |-> FALSE, content |-> <<>>]}
        \cup {[throws |-> FALSE, hasArticle |-> TRUE, content |-> c] : c \in Contents}

\* markdown.trim().length === 0
IsBlank(str) == \A k \in 1..Len(str) : str[k] \in {" ", "\n"}

RECURSIVE StripStart(_)
StripStart(str) ==
    IF str # <<>> /\ Head(str) \in {" ", "\n"} THEN StripStart(Tail(str)) ELSE str

RECURSIVE StripEnd(_)
StripEnd(str) ==
    IF str # <<>> /\ str[Len(str)] \in {" ", "\n"}
    THEN StripEnd(SubSeq(str, 1, Len(str) - 1))
    ELSE str

\* turndownService.turndown(html): the text without the tags, with the
\* blanks at its ends or, when the library strips them, without
turndown(html, strips) ==
    LET text == SelectSeq(html, LAMBDA t : t \notin Tags)
    IN  IF strips THEN StripEnd(StripStart(text)) ELSE text

\* the metadata block in front of the converted text
Metadata == <<"-", "title", "url", "excerpt", "-", "\n", "#", "title", "\n", "\n">>

NoError == "none"

ScrapeFailure(error) == [success |-> FALSE, markdown |-> <<>>, error |-> error]

\* no result: scrapePageToMarkdown was not called
NoResult == ScrapeFailure(NoError)

\* scrapePageToMarkdown without the test of the converted text
scrapeUnchecked(doc, strips) ==
    LET markdown == turndown(doc.content, strips) IN
    IF doc.throws
    THEN ScrapeFailure("Failed to process page content")
    ELSE IF ~doc.hasArticle \/ doc.content = <<>>
         THEN ScrapeFailure("No readable content found on this page.")
         ELSE [success |-> TRUE, markdown |-> Metadata \o markdown, error |-> NoError]

\* scrapePageToMarkdown on a document
scrapePageToMarkdown(doc, strips) ==
    LET markdown == turndown(doc.content, strips) IN
    IF doc.throws
    THEN ScrapeFailure("Failed to process page content")
    ELSE IF ~doc.hasArticle \/ doc.content = <<>>
         THEN ScrapeFailure("No readable content found on this page.")
         ELSE IF markdown = <<>> \/ IsBlank(markdown)
              THEN ScrapeFailure("Content conversion resulted in empty output.")
              ELSE [success |-> TRUE, markdown |-> Metadata \o markdown,
                    error |-> NoError]

\* the converted text of a user action when turndown was not reached
NotConverted == <<"<p>">>

\* what turndown returned in a call of scrapePageToMarkdown
Converted(doc, strips) ==
    IF doc.throws \/ ~doc.hasArticle \/ doc.content = <<>>
    THEN NotConverted
    ELSE turndown(doc.content, strips)

Origins == {"overlay", "popup"}

NoUserAction ==
    [scrapes |-> 0, result |-> NoResult, converted |-> NotConverted,
     clipboardWrites |-> 0, sent |-> 0, answer |-> "none"]

\* the destinations a user picks
Destinations == {"claude", "chatgpt"}

\* the items of the overlay's menu a user picks (the menu of a minimized
\* overlay is not displayed)
MenuItems == Destinations \cup {"copy", "download", "minimize"}

\* a user has at most this many requests of a popup
MaxSent == 2

FabIdle ==
    [pc |-> "idle", menuActive |-> FALSE, minimized |-> FALSE, icon |-> "original",
     pointerEvents |-> TRUE, item |-> "none", markdown |-> <<>>]

\* a destination button of the popup
Button(disabled, content) == [disabled |-> disabled, content |-> content]

PopupClosed ==
    [phase |-> "closed", currentMarkdown |-> <<>>,
     buttons |-> [p \in Platforms |-> Button(FALSE, "original")],
     pending |-> {}, error |-> NoError, copied |-> FALSE]

\* the values of mdify_min_<host>: never stored, true, false
MinValues == {"absent", "true", "false"}

\* no get of mdify_min_<host> is waiting for its callback
NoRead == "none"

\* the first load of a page of the host: nothing is stored, createOverlay
\* has called chrome.storage.local.get and built the overlay
ShareInit ==
    /\ localMin = [value |-> "absent", read |-> "absent"]
    /\ fab = FabIdle
    /\ popup = PopupClosed
    /\ clipboard = <<>>
    /\ pageDoc \in [doc : Docs, strips : BOOLEAN]
    /\ userAction = [o \in Origins |-> NoUserAction]

\* a menu handler that goes on whatever scrapePageToMarkdown returned
ScrapeFailedNever(result) == FALSE

\* if (!result.success || !result.markdown)
ScrapeFailed(result) == ~result.success \/ result.markdown = <<>>

\* the page is loaded again: a new content script builds a new overlay and
\* calls chrome.storage.local.get, which will call back with the value
\* stored now
Reload ==
    /\ UNCHANGED notShareVars
    /\ popup.phase = "closed"
    /\ fab.pc = "idle"
    /\ fab' = FabIdle
    /\ localMin' = [localMin EXCEPT !.read = localMin.value]
    /\ UNCHANGED <<popup, clipboard, pageDoc, userAction>>

\* the callback of createOverlay's chrome.storage.local.get runs:
\* if (isMin) root.classList.add('minimized')
RestoreState ==
    /\ UNCHANGED notShareVars
    /\ localMin.read # NoRead
    /\ fab' = [fab EXCEPT !.minimized = @ \/ localMin.read = "true"]
    /\ localMin' = [localMin EXCEPT !.read = NoRead]
    /\ UNCHANGED <<popup, clipboard, pageDoc, userAction>>

\* chrome.storage.local.set({mdify_min_<host>: isMin})
PersistMinimized(store, isMin) ==
    [store EXCEPT !.value = IF isMin THEN "true" ELSE "false"]

\* a click on the overlay's button (a click on the page closes a popup):
\* restore when minimized, else toggle the menu
FabClick ==
    /\ UNCHANGED notShareVars
    /\ popup.phase = "closed"
    /\ fab.pointerEvents
    /\ IF fab.minimized
       THEN /\ fab' = [fab EXCEPT !.minimized = FALSE]
            /\ localMin' = PersistMinimized(localMin, FALSE)
       ELSE /\ fab' = [fab EXCEPT !.menuActive = ~fab.menuActive]
            /\ UNCHANGED localMin
    /\ UNCHANGED <<popup, clipboard, pageDoc, userAction>>

\* a click on an item of the menu, up to the first await: minimize, or the
\* spinner and scrapePageToMarkdown, and with a result the call of
\* navigator.clipboard.writeText
MenuClick(item) ==
    /\ UNCHANGED notShareVars
    /\ popup.phase = "closed"
    /\ fab.menuActive
    /\ ~fab.minimized
    /\ localMin' = IF item = "minimize" THEN PersistMinimized(localMin, TRUE) ELSE localMin
    /\ IF item = "minimize"
       THEN /\ fab' = [fab EXCEPT !.menuActive = FALSE, !.minimized = TRUE]
            /\ UNCHANGED <<clipboard, userAction>>
       ELSE LET result == scrapePageToMarkdown(pageDoc.doc, pageDoc.strips)
                scraped == [NoUserAction EXCEPT
                               !.scrapes = 1, !.result = result,
                               !.converted = Converted(pageDoc.doc, pageDoc.strips)]
            IN  IF ScrapeFailed(result)
                THEN /\ fab' = [fab EXCEPT !.menuActive = FALSE, !.pointerEvents = FALSE,
                                           !.icon = "error", !.pc = "restoring",
                                           !.item = item]
                     /\ userAction' = [userAction EXCEPT !["overlay"] = scraped]
                     /\ UNCHANGED clipboard
                ELSE /\ fab' = [fab EXCEPT !.menuActive = FALSE, !.pointerEvents = FALSE,
                                           !.icon = "spinner", !.pc = "clipboard",
                                           !.item = item, !.markdown = result.markdown]
                     /\ userAction' =
                            [userAction EXCEPT
                                !["overlay"] = [scraped EXCEPT !.clipboardWrites = 1]]
                     /\ UNCHANGED clipboard
    /\ UNCHANGED <<popup, pageDoc>>

\* writeText settles: rejected, or the text is on the clipboard and the
\* handler goes on, with a destination to chrome.runtime.sendMessage
ClipboardSettles(written) ==
    /\ UNCHANGED notShareVars
    /\ UNCHANGED localMin
    /\ fab.pc = "clipboard"
    /\ IF ~written
       THEN /\ fab' = [fab EXCEPT !.icon = "error", !.pc = "restoring", !.markdown = <<>>]
            /\ UNCHANGED <<clipboard, userAction>>
       ELSE /\ clipboard' = fab.markdown
            /\ IF fab.item \in Platforms
               THEN /\ fab' = [fab EXCEPT !.pc = "sending"]
                    /\ userAction' = [userAction EXCEPT !["overlay"].sent = 1]
               ELSE /\ fab' = [fab EXCEPT !.icon = "check", !.pc = "restoring",
                                          !.markdown = <<>>]
                    /\ UNCHANGED userAction
    /\ UNCHANGED <<popup, pageDoc>>

\* the icon after `await chrome.runtime.sendMessage(...)`: the response is
\* not looked at, only a rejection reaches catch
IconAfterSend(answer) == IF answer = "rejected" THEN "error" ELSE "check"

\* sendMessage settles: with a response, success or failure, or rejected
OverlaySendSettles(answer) ==
    /\ UNCHANGED notShareVars
    /\ UNCHANGED localMin
    /\ fab.pc = "sending"
    /\ fab' = [fab EXCEPT !.icon = IconAfterSend(answer), !.pc = "restoring",
                          !.markdown = <<>>]
    /\ userAction' = [userAction EXCEPT !["overlay"].answer = answer]
    /\ UNCHANGED <<popup, clipboard, pageDoc>>

\* the timer of the finally block, 2 s later
RestoreFab ==
    /\ UNCHANGED notShareVars
    /\ UNCHANGED localMin
    /\ fab.pc = "restoring"
    /\ fab' = [fab EXCEPT !.icon = "original", !.pointerEvents = TRUE, !.pc = "idle",
                          !.item = "none"]
    /\ userAction' = [userAction EXCEPT !["overlay"] = NoUserAction]
    /\ UNCHANGED <<popup, clipboard, pageDoc>>

\* the popup is opened and init runs up to chrome.tabs.sendMessage: the
\* tab has no id, is a restricted page, chrome.tabs.query throws, or the
\* scrapePage request is sent (popup.html is not among the sources: the
\* buttons start disabled or not)
PopupOpen(tab, initiallyDisabled) ==
    /\ UNCHANGED notShareVars
    /\ UNCHANGED localMin
    /\ popup.phase = "closed"
    /\ LET opened ==
               [PopupClosed EXCEPT
                   !.buttons = [p \in Platforms |-> Button(initiallyDisabled, "original")]]
       IN  popup' =
               CASE tab = "noId" ->
                        [opened EXCEPT !.phase = "error",
                                       !.error = "Unable to access current tab"]
                 [] tab = "restricted" ->
                        [opened EXCEPT !.phase = "error",
                                       !.error = "Cannot scrape browser internal pages"]
                 [] tab = "throws" ->
                        [opened EXCEPT !.phase = "error", !.error = "Failed to initialize"]
                 [] OTHER -> [opened EXCEPT !.phase = "loading"]
    /\ userAction' = [userAction EXCEPT !["popup"] = NoUserAction]
    /\ UNCHANGED <<fab, clipboard, pageDoc>>

\* the response to scrapePage has no markdown
NoMarkdown(scraped) == scraped.markdown = <<>>

\* the callback of chrome.tabs.sendMessage with lastError set: no content
\* script in the tab
PopupNoReceiver ==
    /\ UNCHANGED notShareVars
    /\ UNCHANGED localMin
    /\ popup.phase = "loading"
    /\ popup' = [popup EXCEPT !.phase = "error", !.error = "Unable to scrape this page"]
    /\ UNCHANGED <<fab, clipboard, pageDoc, userAction>>

\* the content script's listener answers scrapePage with the result of
\* scrapePageToMarkdown, and the callback of the popup runs: the error, or
\* currentMarkdown and updateUI
PopupScraped ==
    /\ UNCHANGED notShareVars
    /\ UNCHANGED localMin
    /\ popup.phase = "loading"
    /\ LET scraped == scrapePageToMarkdown(pageDoc.doc, pageDoc.strips)
       IN  /\ userAction' =
                  [userAction EXCEPT
                      !["popup"] = [NoUserAction EXCEPT
                                       !.scrapes = 1, !.result = scraped,
                                       !.converted = Converted(pageDoc.doc, pageDoc.strips)]]
           /\ popup' =
                  IF NoMarkdown(scraped)
                  THEN [popup EXCEPT !.phase = "error",
                                     !.error = "No content found on this page"]
                  ELSE [popup EXCEPT
                           !.phase = "content",
                           !.currentMarkdown = scraped.markdown,
                           !.buttons = [p \in Platforms |->
                                           [popup.buttons[p] EXCEPT !.disabled = FALSE]]]
    /\ UNCHANGED <<fab, clipboard, pageDoc>>

\* the button of a request that failed
ButtonLeftDisabled(button, originalContent) == button

\* button.disabled = false; button.innerHTML = originalContent
ButtonRestored(button, originalContent) == Button(FALSE, originalContent)

\* a click on a destination button: injectToPlatform(platform, button) up
\* to the await
PopupInject(platform) ==
    /\ UNCHANGED notShareVars
    /\ UNCHANGED localMin
    /\ popup.phase \in {"content", "error"}
    /\ ~popup.buttons[platform].disabled
    /\ IF popup.currentMarkdown = <<>>
       THEN UNCHANGED <<popup, userAction>>
       ELSE /\ userAction["popup"].sent < MaxSent
            /\ popup' = [popup EXCEPT !.buttons[platform] = Button(TRUE, "spinner"),
                                      !.pending = popup.pending \cup {platform}]
            /\ userAction' = [userAction EXCEPT !["popup"].sent = @ + 1]
    /\ UNCHANGED <<fab, clipboard, pageDoc>>

\* the request of a destination settles: success closes the popup, a
\* failure or a rejected sendMessage shows the error and restores the
\* button (originalContent was read at the click)
PopupInjectSettles(platform, answer) ==
    /\ UNCHANGED notShareVars
    /\ UNCHANGED localMin
    /\ platform \in popup.pending
    /\ popup' =
           CASE answer = "success" -> PopupClosed
             [] answer = "failure" ->
                    [popup EXCEPT
                        !.buttons[platform] = ButtonRestored(@, "original"),
                        !.pending = popup.pending \ {platform},
                        !.error = "Injection failed"]
             [] OTHER ->
                    [popup EXCEPT
                        !.buttons[platform] = ButtonRestored(@, "original"),
                        !.pending = popup.pending \ {platform},
                        !.error = "Connection error"]
    /\ userAction' = [userAction EXCEPT !["popup"].answer = answer]
    /\ UNCHANGED <<fab, clipboard, pageDoc>>

\* a click on Copy: copyToClipboard, the write settled with it
PopupCopy(written) ==
    /\ UNCHANGED notShareVars
    /\ UNCHANGED localMin
    /\ popup.phase \in {"content", "error"}
    /\ IF popup.currentMarkdown = <<>>
       THEN UNCHANGED <<popup, clipboard, pageDoc, userAction>>
       ELSE /\ userAction' = [userAction EXCEPT !["popup"].clipboardWrites = 1]
            /\ IF written
               THEN /\ clipboard' = popup.currentMarkdown
                    /\ popup' = [popup EXCEPT !.copied = TRUE]
               ELSE /\ popup' = [popup EXCEPT !.error = "Copy failed"]
                    /\ UNCHANGED clipboard
    /\ UNCHANGED <<fab, pageDoc>>

\* the timer of copyToClipboard, 2 s later
PopupCopyTimer ==
    /\ UNCHANGED notShareVars
    /\ UNCHANGED localMin
    /\ popup.copied
    /\ popup' = [popup EXCEPT !.copied = FALSE]
    /\ UNCHANGED <<fab, clipboard, pageDoc, userAction>>

\* the user closes the popup
PopupClose ==
    /\ UNCHANGED notShareVars
    /\ UNCHANGED localMin
    /\ popup.phase # "closed"
    /\ popup' = PopupClosed
    /\ UNCHANGED <<fab, clipboard, pageDoc, userAction>>

ShareNext ==
    \/ Reload
    \/ RestoreState
    \/ FabClick
    \/ \E item \in MenuItems : MenuClick(item)
    \/ \E written \in BOOLEAN : ClipboardSettles(written)
    \/ \E answer \in {"success", "failure", "rejected"} : OverlaySendSettles(answer)
    \/ RestoreFab
    \/ \E tab \in {"noId", "restricted", "throws", "page"}, initiallyDisabled \in BOOLEAN :
          PopupOpen(tab, initiallyDisabled)
    \/ PopupNoReceiver
    \/ PopupScraped
    \/ \E platform \in Destinations : PopupInject(platform)
    \/ \E platform \in Destinations, answer \in {"success", "failure", "rejected"} :
          PopupInjectSettles(platform, answer)
    \/ \E written \in BOOLEAN : PopupCopy(written)
    \/ PopupCopyTimer
    \/ PopupClose

\* no overlay menu in use and no popup, on a page without an article
ShareIdle ==
    /\ ShareInit
    /\ pageDoc = [doc |-> [throws |-> FALSE, hasArticle |-> FALSE, content |-> <<>>],
                  strips |-> FALSE]

(***************************************************************************)
(* The token display: getTokenStatus.                                      *)
(***************************************************************************)
\* the counts tried lie at most this far from a threshold
TokenWindow == 30

\* if (count < 25000)
HEAVY_FROM == 25000

\* else if (count < 100000)
CRITICAL_FROM == 100000

TokenCounts ==
    {0} \cup ((HEAVY_FROM - TokenWindow)..(HEAVY_FROM + TokenWindow))
        \cup ((CRITICAL_FROM - TokenWindow)..(CRITICAL_FROM + TokenWindow))

\* getTokenStatus(count)
getTokenStatus(count) ==
    IF count < HEAVY_FROM
    THEN [status |-> "safe", label |-> "Safe", color |-> "green"]
    ELSE IF count < CRITICAL_FROM
         THEN [status |-> "heavy", label |-> "Heavy Context", color |-> "orange"]
         ELSE [status |-> "critical", label |-> "Split Required", color |-> "red"]

NoStatus == [status |-> "none", label |-> "", color |-> ""]

TokenInit ==
    /\ tokenCount = 0
    /\ tokenStatus = NoStatus

\* updateUI: the tokens of currentMarkdown are counted and classified
UpdateUI(count) ==
    /\ UNCHANGED notTokenVars
    /\ tokenCount' = count
    /\ tokenStatus' = getTokenStatus(count)

TokenNext == \E count \in TokenCounts : UpdateUI(count)

\* no popup has counted tokens
TokenIdle == TokenInit

\* no delivery in progress
DeliverIdle == DeliverInit

Init == DeliverInit /\ InjectIdle /\ PairIdle /\ OverlayIdle /\ ShareIdle /\ TokenIdle

Next == DeliverNext

Spec == Init /\ [][Next]_vars

\* what the platform guarantees to a delivery: the callback of
\* chrome.tabs.create runs, a timer that is due fires, and time passes.
\* Nothing makes the destination report 'complete' or reply to a message.
DeliverFairness ==
    /\ WF_vars(\E tab \in CreatedTabs : TabCreated(tab))
    /\ WF_vars(WaitElapsed)
    /\ WF_vars(WatchdogFires)
    /\ WF_vars(Tick)

SpecFair == Spec /\ DeliverFairness

InitInject == DeliverIdle /\ InjectInit /\ PairIdle /\ OverlayIdle /\ ShareIdle /\ TokenIdle

NextInject ==
    \/ \E faults \in [Candidates(dom, message.platform) -> Faults] : OnInjectMessage(faults)

SpecInject == InitInject /\ [][NextInject]_vars

InitPair == DeliverIdle /\ InjectIdle /\ PairInit /\ OverlayIdle /\ ShareIdle /\ TokenIdle

SpecPair == InitPair /\ [][PairNext]_vars

InitOverlay == DeliverIdle /\ InjectIdle /\ PairIdle /\ OverlayInit /\ ShareIdle /\ TokenIdle

SpecOverlay == InitOverlay /\ [][OverlayNext]_vars

InitShare == DeliverIdle /\ InjectIdle /\ PairIdle /\ OverlayIdle /\ ShareInit /\ TokenIdle

SpecShare == InitShare /\ [][ShareNext]_vars

InitTokens ==
    DeliverIdle /\ InjectIdle /\ PairIdle /\ OverlayIdle /\ ShareIdle /\ TokenInit

SpecTokens == InitTokens /\ [][TokenNext]_vars

(***************************************************************************)
(* The delivery workflow: claims.                                          *)
(***************************************************************************)

\* the latest attempt succeeded after k - 1 failed ones
SucceededAt(k) ==
    /\ Len(results) = k
    /\ results[k]
    /\ \A i \in 1..(k - 1) : ~results[i]

\* every attempt up to the maximum failed
AllFailed ==
    /\ Len(results) = MAX_INJECTION_ATTEMPTS
    /\ \A i \in 1..MAX_INJECTION_ATTEMPTS : ~results[i]

\* C1: one openAndInject call never sends more than MAX_INJECTION_ATTEMPTS
\* injectContent messages to the destination tab, whatever the replies.
C1_AtMostMaxAttempts == sent <= MAX_INJECTION_ATTEMPTS

C1_Witness ==
    /\ sent = MAX_INJECTION_ATTEMPTS
    /\ settled
    /\ outcome.attempts = MAX_INJECTION_ATTEMPTS

\* C2: once the watchdog duration has elapsed since the watchdog was
\* started, an outcome has been produced no later than the watchdog's
\* deadline, in whatever state the delivery is (waiting for the load, in the
\* settle delay or attempting).
C2_WatchdogInAnyState ==
    (tabId # 0 /\ now > watchdogDeadline) => (settled /\ settledAt <= watchdogDeadline)

\* C3: the time from the request to the final outcome never exceeds the
\* watchdog duration plus one inter-attempt delay.
C3_ElapsedBound ==
    settled => settledAt - requestAt <= INJECTION_TIMEOUT_MS + INJECTION_RETRY_DELAY_MS

\* C4: as long as the destination tab has not reported 'complete', no
\* injectContent message has been sent and the watchdog is pending with its
\* deadline not passed; once the watchdog has fired without the tab
\* reporting 'complete', the outcome is success = false, reason 'timeout',
\* attempts 0, produced at the watchdog's deadline.
C4_NoLoadTimesOut ==
    (tabId # 0 /\ loadedAt = -1) =>
        /\ sent = 0
        /\ watchdogPending => (now <= watchdogDeadline /\ ~settled)
        /\ ~watchdogPending =>
              /\ settled
              /\ outcome = [success |-> FALSE, reason |-> "timeout", attempts |-> 0]
              /\ settledAt = watchdogDeadline
              /\ settledAt - requestAt <= INJECTION_TIMEOUT_MS + MaxCreateLatencyMs

C4_Witness ==
    /\ tabId # 0
    /\ loadedAt = -1
    /\ settled
    /\ outcome.reason = "timeout"
    /\ now = watchdogDeadline
    /\ sent = 0

\* C5: when attempt k succeeds after k - 1 failed attempts, the outcome is
\* success = true with attempts = k, and exactly k injectContent messages
\* were sent: none follows the successful one.
C5_SuccessAtK ==
    \A k \in 1..MAX_INJECTION_ATTEMPTS :
        SucceededAt(k) =>
            /\ settled
            /\ outcome = [success |-> TRUE, reason |-> NoReason, attempts |-> k]
            /\ sent = k
            /\ inflight = 0
            /\ pc = "done"
            /\ ~waitPending

C5_Witness ==
    /\ SucceededAt(3)
    /\ outcome.success
    /\ outcome.attempts = 3

\* C6: when every attempt up to the maximum failed, the outcome is
\* success = false, attempts = MAX_INJECTION_ATTEMPTS, with the reason of
\* the last attempt; a failed attempt n < max is followed by one
\* INJECTION_RETRY_DELAY_MS wait and then attempt n + 1.
C6_Exhausted ==
    /\ AllFailed =>
          /\ settled
          /\ outcome = [success |-> FALSE, reason |-> lastResult.reason,
                        attempts |-> MAX_INJECTION_ATTEMPTS]
          /\ sent = MAX_INJECTION_ATTEMPTS
          /\ pc = "done"
    /\ pc = "retryDelay" =>
          /\ attempt < MAX_INJECTION_ATTEMPTS
          /\ Len(results) = attempt
          /\ sent = attempt
          /\ waitPending
          /\ waitDeadline = repliedAt + INJECTION_RETRY_DELAY_MS
          /\ ~settled
    /\ (pc = "attempting" /\ attempt > 1) =>
          /\ sent = attempt
          /\ Len(results) = attempt - 1
          /\ sentAt = repliedAt + INJECTION_RETRY_DELAY_MS

C6_Witness ==
    /\ AllFailed
    /\ settled
    /\ outcome.attempts = MAX_INJECTION_ATTEMPTS
    /\ outcome.reason = "input_not_visible"
    /\ lastReason = "input_not_visible"

\* C7: attempts are sequential: at most one injectContent message is in
\* flight, and message n + 1 is sent only when the replies to messages 1..n
\* have all been received.
C7_Sequential ==
    /\ inflight <= 1
    /\ inflight = sent - Len(results)
    /\ sent <= Len(results) + 1

C7_Witness ==
    /\ sent = 2
    /\ inflight = 1
    /\ Len(results) = 1

(***************************************************************************)
(* injectContent: claims.                                                  *)
(***************************************************************************)

\* the text an element holds: the value of a textarea, the text of the
\* content of any other element
TextContent(el) == IF el.tag = "TEXTAREA" THEN el.value ELSE el.child.text

\* the injectContent message was handled for a supported destination
Handled == ipc = "handled" /\ message.platform \in Platforms

\* C8: for every supported destination and payload, when injectContent
\* returns success the text of the element it injected into (a visible,
\* editable match of the destination's selectors) is the payload.
C8_RoundTrip ==
    (Handled /\ response.success) =>
        /\ call.target \in 1..Len(dom)
        /\ isVisible(dom[call.target])
        /\ isEditable(dom[call.target])
        /\ TextContent(dom[call.target]) = message.markdown

\* C9 as claimed: an exception raised by a handler never leaves
\* injectContent, and injectContent then returns the failure reason
\* 'injection_exception'.
C9_ExceptionReported ==
    (ipc = "handled" /\ call.threwAt # {}) =>
        /\ ~call.escaped
        /\ response = Failure("injection_exception")

\* C9 as amended: an exception raised by a handler never leaves
\* injectContent (the listener always answers with the function's result);
\* the result is then the failure reason 'injection_exception', unless a
\* candidate after the ones that threw was injected without an exception,
\* and then it is success.
C9_ExceptionCaught ==
    ipc = "handled" =>
        /\ ~call.escaped
        /\ call.returned
        /\ response # NoResponse
        /\ call.threwAt # {} =>
              /\ call.hadInjectionError
              /\ \/ response = Failure("injection_exception")
                 \/ /\ response = Success
                    /\ \A i \in call.threwAt : i < call.target
              /\ response = Success <=>
                    \E i \in Candidates(dom, message.platform) :
                        \A j \in call.threwAt : j < i

C9_Witness ==
    /\ ipc = "handled"
    /\ call.threwAt # {}
    /\ response = Failure("injection_exception")

\* the other case of the amended C9: a later candidate succeeded
C9_WitnessLaterSuccess ==
    /\ ipc = "handled"
    /\ call.threwAt # {}
    /\ response = Success

\* C10: injectContent returns 'no_input_found' exactly when no element of
\* the document matches the destination's selector list.
C10_NoInputFound ==
    ipc = "handled" =>
        (response = Failure("no_input_found")
            <=> \A i \in 1..Len(dom) :
                    ~MatchesAny(dom[i], getTextareaSelector(message.platform)))

C10_Witness ==
    /\ ipc = "handled"
    /\ Len(dom) = MaxElements
    /\ response = Failure("no_input_found")

\* element el holds the text: as its value or as the text of its child
HoldsText(el, text) == el.value = text \/ el.child.text = text

\* C34: after a call of injectContent at most one element of the document
\* holds the payload, also when the injection into a candidate raised an
\* exception.
C34_AtMostOneElementWritten ==
    ipc = "handled" =>
        Cardinality({i \in 1..Len(dom) : HoldsText(dom[i], message.markdown)}) <= 1

\* the elements of the document the destination's selector list matches
Matching == {i \in 1..Len(dom) : MatchesAny(dom[i], getTextareaSelector(message.platform))}

\* element el is a text area or has contenteditable="true"
Editable(el) == el.tag = "TEXTAREA" \/ el.attrs["contenteditable"] = S_true

\* C11: when the document has matches of the destination's selector list
\* and none of them is visible, injectContent returns 'input_not_visible',
\* whether or not a hidden match is editable.
C11_InputNotVisible ==
    (ipc = "handled" /\ Matching # {} /\ \A i \in Matching : ~dom[i].visible)
        => response = Failure("input_not_visible")

\* a hidden match that is editable, and one that is not
C11_Witness ==
    /\ ipc = "handled"
    /\ response = Failure("input_not_visible")
    /\ \E i \in Matching : ~dom[i].visible /\ Editable(dom[i])
    /\ \E i \in Matching : ~dom[i].visible /\ ~Editable(dom[i])

\* C12: when some match is visible and no visible match is editable,
\* injectContent returns 'input_not_editable'.
C12_InputNotEditable ==
    (/\ ipc = "handled"
     /\ \E i \in Matching : dom[i].visible
     /\ \A i \in Matching : dom[i].visible => ~Editable(dom[i]))
        => response = Failure("input_not_editable")

\* a visible match that is not editable, next to a hidden one that is
C12_Witness ==
    /\ ipc = "handled"
    /\ response = Failure("input_not_editable")
    /\ \E i \in Matching : dom[i].visible /\ ~Editable(dom[i])
    /\ \E i \in Matching : ~dom[i].visible /\ Editable(dom[i])

\* the visible, editable matches
VisibleEditable == {i \in Matching : dom[i].visible /\ Editable(dom[i])}

\* the position in the destination's list of the first selector el matches
SelectorRank(el) ==
    LET selectors == getTextareaSelector(message.platform)
    IN  CHOOSE k \in 1..Len(selectors) :
            /\ MatchesSelector(el, selectors[k])
            /\ \A j \in 1..(k - 1) : ~MatchesSelector(el, selectors[j])

\* the first visible, editable match in selector-priority order, then
\* document order
PriorityFirst ==
    CHOOSE i \in VisibleEditable :
        \A j \in VisibleEditable :
            \/ SelectorRank(dom[i]) < SelectorRank(dom[j])
            \/ SelectorRank(dom[i]) = SelectorRank(dom[j]) /\ i <= j

\* C13: the element injectContent injects into is the first visible,
\* editable match in selector-priority order and then document order: the
\* match of a higher-priority selector is chosen even when a match of a
\* lower-priority selector comes earlier in the document.  (Stated for the
\* calls in which no handler raises an exception.)
C13_SelectorPriority ==
    (Handled /\ call.threwAt = {} /\ VisibleEditable # {}) =>
        /\ response.success
        /\ call.target = PriorityFirst

\* the steps done on element i, and the events dispatched on it
StepsOn(i) == SelectSeq(performed, LAMBDA s : s.target = i)

EventsOn(i) == SelectSeq(dispatched, LAMBDA e : e.target = i)

TypesOf(events) == [k \in 1..Len(events) |-> events[k].type]

\* the plain-input sequence, with the extra input event that follows it
PlainInputSequence ==
    << "focus", "keydown", "keypress", "beforeinput", "input", "change", "keyup", "input" >>

\* C14: when the target is a text area, its value is set to the payload
\* before any event is dispatched on it, and the events dispatched on it
\* are, in this order, focus, keydown, keypress, beforeinput, input, change,
\* keyup and one more input.
C14_PlainInputOrder ==
    (ipc = "handled" /\ response.success /\ dom[call.target].tag = "TEXTAREA") =>
        LET s == StepsOn(call.target)
            dispatches == {k \in 1..Len(s) : s[k].op = "dispatchEvent"}
        IN  /\ dispatches # {}
            /\ \E j \in 1..Len(s) :
                  /\ s[j].op = "set" /\ s[j].what = "value"
                  /\ s[j].data = message.markdown
                  /\ \A k \in dispatches : j < k
            /\ \A j \in 1..Len(s) : s[j].op = "set" => s[j].data = message.markdown
            /\ dom[call.target].value = message.markdown
            /\ [k \in 1..Cardinality(dispatches) |->
                   s[Len(s) - Cardinality(dispatches) + k].what] = PlainInputSequence
            /\ TypesOf(EventsOn(call.target)) = PlainInputSequence

C14_Witness ==
    /\ ipc = "handled"
    /\ response.success
    /\ dom[call.target].tag = "TEXTAREA"
    /\ Len(message.markdown) > 1
    /\ Len(dispatched) = Len(PlainInputSequence)

\* C15 as claimed: in every variant the beforeinput event carries the
\* payload as its data, and the input event that follows it carries the
\* same payload as its data.
C15_InputCarriesPayload ==
    (ipc = "handled" /\ response.success) =>
        LET e == EventsOn(call.target)
        IN  /\ \E k \in 1..Len(e) : e[k].type = "beforeinput"
            /\ \A k \in 1..Len(e) : e[k].type = "beforeinput" =>
                  /\ e[k].data = message.markdown
                  /\ k < Len(e)
                  /\ e[k + 1].type = "input"
                  /\ e[k + 1].data = message.markdown

\* C15 as amended: in every variant the beforeinput event carries the
\* payload as its data; the input event that follows it has no data, and
\* neither has any other event.
C15_BeforeInputCarriesPayload ==
    (ipc = "handled" /\ response.success) =>
        LET e == EventsOn(call.target)
        IN  /\ \E k \in 1..Len(e) : e[k].type = "beforeinput"
            /\ \A k \in 1..Len(e) : e[k].type = "beforeinput" =>
                  /\ e[k].data = message.markdown
                  /\ k < Len(e)
                  /\ e[k + 1].type = "input"
            /\ \A k \in 1..Len(e) : e[k].type # "beforeinput" => e[k].data = NoData

\* a contenteditable div written with a payload of several lines
C15_Witness ==
    /\ ipc = "handled"
    /\ response.success
    /\ dom[call.target].tag = "DIV"
    /\ Len(message.markdown) > 1
    /\ \E k \in 1..(Len(dispatched) - 1) :
          /\ dispatched[k].type = "beforeinput"
          /\ dispatched[k].data = message.markdown
          /\ dispatched[k + 1].type = "input"
          /\ dispatched[k + 1].data = NoData

\* C16: the strategy is a function of the destination and the kind of the
\* target.  A contenteditable div is written as plain text without a
\* wrapper for chatgpt, as plain text with the color of the node set for
\* gemini, and as a <pre> wrapper for claude, grok and perplexity; a text
\* area gets its value set and the plain-input sequence, for every
\* destination.
C16_StrategyByDestination ==
    (Handled /\ response.success) =>
        LET t == dom[call.target]
            e == EventsOn(call.target)
        IN  /\ (t.tag = "DIV" /\ t.attrs["contenteditable"] = S_true) =>
                  /\ t.child = (IF message.platform \in {"chatgpt", "gemini"}
                                THEN TextChild(message.markdown)
                                ELSE PreChild(message.markdown))
                  /\ t.color = (IF message.platform = "gemini" THEN "inherit" ELSE "page")
                  /\ t.value = Undefined
                  /\ TypesOf(e) = << "focus", "beforeinput", "input", "change" >>
            /\ t.tag = "TEXTAREA" =>
                  /\ t.value = message.markdown
                  /\ t.child = NoChild
                  /\ t.color = "page"
                  /\ TypesOf(e) = PlainInputSequence

C16_Witness ==
    /\ Handled
    /\ response.success
    /\ message.platform = "gemini"
    /\ dom[call.target].tag = "DIV"
    /\ dom[call.target].color = "inherit"
    /\ dom[call.target].child = TextChild(message.markdown)

\* the reasons injectContent gives when it found no element to inject into
ResolutionFailures ==
    { Failure("no_input_found"), Failure("input_not_visible"), Failure("input_not_editable") }

\* C17: when injectContent returns 'no_input_found', 'input_not_visible' or
\* 'input_not_editable', it has changed no element (value, content, style),
\* called no method of one (focus) and dispatched no event.
C17_ResolutionFailureFrame ==
    [][(ipc' = "handled" /\ response' \in ResolutionFailures) =>
          /\ dom' = dom
          /\ dispatched' = <<>>
          /\ performed' = <<>>]_vars

\* a resolution failure on a document with a hidden, editable text area
C17_Witness ==
    /\ ipc = "handled"
    /\ response \in ResolutionFailures
    /\ \E i \in Matching : dom[i].tag = "TEXTAREA" /\ dom[i].value = OldText
    /\ performed = <<>>

(***************************************************************************)
(* The delivery workflow: claims on the request and its response.          *)
(***************************************************************************)
\* the callback of chrome.tabs.create has run without a tab, or with a tab
\* that has no id
CreateFailed == pc \notin {"idle", "rejected", "createThrew", "creating"} /\ tabId = 0

\* C18: when chrome.tabs.create calls back with no tab, or with a tab that
\* has no id, the delivery finishes with success false, reason
\* 'runtime_error' and attempts 0; no onUpdated listener and no watchdog is
\* registered and no injectContent message is sent.
C18_CreateFailure ==
    CreateFailed =>
        /\ settled
        /\ outcome = CreateFailedOutcome
        /\ ~listenerOn
        /\ ~watchdogPending
        /\ sent = 0

\* the reply is chrome.runtime.lastError, no response, or a response that
\* has neither success nor a reason
TransportFailure(reply) ==
    \/ reply.lastError
    \/ ~reply.present
    \/ reply.present /\ ~reply.success /\ reply.reason = NoReason

\* a failure the content script reported with a reason
ReportedFailure(reply) ==
    ~reply.lastError /\ reply.present /\ ~reply.success /\ reply.reason # NoReason

\* the latest attempt was taken as a failure with reason, and the loop went
\* on: to the retry delay and the next attempt, or after the last attempt to
\* the outcome Exhausted
FailedAttemptFollowedUp(reason) ==
    /\ lastResult = [success |-> FALSE, reason |-> reason]
    /\ lastReason = reason
    /\ IF Len(results) < MAX_INJECTION_ATTEMPTS
       THEN /\ ~settled
            /\ \/ /\ pc = "retryDelay"
                  /\ waitPending
                  /\ waitDeadline = repliedAt + INJECTION_RETRY_DELAY_MS
                  /\ sent = Len(results)
               \/ /\ pc = "attempting"
                  /\ sent = Len(results) + 1
                  /\ sentAt = repliedAt + INJECTION_RETRY_DELAY_MS
       ELSE /\ pc = "done"
            /\ settled
            /\ outcome = ExhaustedOutcome(reason)

\* C19: a transport error (chrome.runtime.lastError) makes the attempt a
\* failure with reason 'runtime_error', a missing or uninterpretable reply
\* one with reason 'unknown'; neither ends the delivery or raises, and the
\* retry loop goes on exactly as it does after a failure the content script
\* reported.
C19_TransportFailureIsFailedAttempt ==
    Len(results) > 0 =>
        /\ TransportFailure(lastReply) =>
              FailedAttemptFollowedUp(IF lastReply.lastError THEN "runtime_error"
                                      ELSE "unknown")
        /\ ReportedFailure(lastReply) => FailedAttemptFollowedUp(lastReply.reason)

\* a transport error on the first attempt, the second attempt on its way
C19_Witness ==
    /\ Len(results) = 1
    /\ lastReply.lastError
    /\ lastResult.reason = "runtime_error"
    /\ pc = "attempting"
    /\ sent = 2

\* the outcomes a delivery ends with
TerminalOutcomes ==
    {SuccessOutcome(n) : n \in 1..MAX_INJECTION_ATTEMPTS}
    \cup {ExhaustedOutcome(r) : r \in InjectionFailureReason}
    \cup {TimeoutOutcome, CreateFailedOutcome}

\* one response at most, none while the delivery is in progress, and the
\* one after it the outcome
OneResponse ==
    /\ Len(uiResponses) <= 1
    /\ settled => /\ outcome \in TerminalOutcomes
                  /\ uiResponses = << InjectionResponse(outcome) >>
    /\ pc = "rejected" => uiResponses = << UnknownPlatformResponse >>
    /\ (~settled /\ pc # "rejected") => uiResponses = <<>>

C21_FirstAttemptAfterSettleDelay ==
    /\ loadedAt = -1 => sent = 0
    /\ pc \in {"creating", "waitingForLoad", "waitingForRender"} => sent = 0
    /\ sent >= 1 =>
          /\ loadedAt >= requestAt
          /\ sentAt >= loadedAt + REACT_MOUNT_DELAY_MS
    /\ sent = 1 => sentAt = loadedAt + REACT_MOUNT_DELAY_MS

\* the first message is on its way, on a tab that took time to load
C21_Witness ==
    /\ sent = 1
    /\ pc = "attempting"
    /\ loadedAt > requestAt
    /\ sentAt = loadedAt + REACT_MOUNT_DELAY_MS

\* C22: when the outcome of a delivery is produced, on every exit path,
\* the tabs.onUpdated listener of the delivery is not registered any more
\* and neither its watchdog timer nor a wait timer is pending.
C22_NothingLeftRegistered ==
    settled =>
        /\ ~listenerOn
        /\ ~watchdogPending
        /\ ~waitPending

\* the exit by timeout, of a delivery whose tab was created
C22_Witness ==
    /\ settled
    /\ tabId # 0
    /\ outcome = TimeoutOutcome
    /\ ~listenerOn

\* C35: every call of deliver eventually produces its final outcome
\* (success, exhaustion or timeout), whatever the destination does: a tab
\* that never loads, replies that fail, replies that never arrive.
C35_EventuallySettles == (pc = "creating") ~> settled

\* C38: a request whose platform is not one of the five destinations is
\* answered with success false, reason 'unknown' and attempts 0; no tab is
\* opened for it, no listener and no timer is registered, and no message is
\* sent to a tab.
C38_UnknownPlatformRejected ==
    (pc # "idle" /\ request \notin Platforms) =>
        /\ uiResponses = << UnknownPlatformResponse >>
        /\ pc # "creating"
        /\ tabId = 0
        /\ ~listenerOn
        /\ ~watchdogPending
        /\ ~waitPending
        /\ sent = 0

\* C37: every response to injectToPlatform is well-formed.  With success
\* it has no reason and its attempts are the number of the attempt that
\* succeeded, from 1 to MAX_INJECTION_ATTEMPTS.  Without success it has a
\* reason; its attempts are 0 when no attempt was made (reason 'timeout',
\* 'runtime_error' of the tab creation, or 'unknown' of an unknown
\* platform) and MAX_INJECTION_ATTEMPTS when the attempts were used up.
C37_ResponseWellFormed ==
    \A i \in 1..Len(uiResponses) :
       LET r == uiResponses[i]
       IN  /\ r.success =>
                /\ r.reason = NoReason
                /\ r.attempts \in 1..MAX_INJECTION_ATTEMPTS
                /\ r.attempts = sent
           /\ ~r.success =>
                /\ r.reason \in InjectionFailureReason
                /\ r.reason = "timeout" => (r.attempts = 0 /\ sent = 0)
                /\ sent = 0 => (r.attempts = 0
                                /\ r.reason \in {"timeout", "runtime_error", "unknown"})
                /\ sent > 0 => (r.attempts = MAX_INJECTION_ATTEMPTS
                                /\ sent = MAX_INJECTION_ATTEMPTS)

\* the response after five failed attempts, the last of which was answered
\* with a reason of the content script
C37_Witness ==
    /\ sent = MAX_INJECTION_ATTEMPTS
    /\ uiResponses = << [success |-> FALSE, url |-> PLATFORM_URLS[request],
                         reason |-> "input_not_visible",
                         attempts |-> MAX_INJECTION_ATTEMPTS] >>

(***************************************************************************)
(* Two deliveries at a time: claims.                                       *)
(***************************************************************************)
\* the calls whose chrome.tabs.create gave them a tab
WithTab == {c \in Calls : deliveries[c].tabId # 0}

\* C23: two calls of deliver are independent in every interleaving: each
\* call opens a tab of its own (two calls, two tabs), starts its attempts
\* only after the 'complete' event of its own tab, and sends its
\* injectContent messages to its own tab only.
C23_CallsIndependent ==
    /\ Cardinality(openTabs) = Cardinality(WithTab)
    /\ \A c \in WithTab :
          /\ deliveries[c].tabId \in openTabs
          /\ \A other \in WithTab \ {c} : deliveries[other].tabId # deliveries[c].tabId
    /\ \A c \in Calls :
          (\/ deliveries[c].attempt > 0
           \/ deliveries[c].pc \in {"waitingForRender", "attempting", "retryDelay"})
              => /\ c \in WithTab
                 /\ deliveries[c].tabId \in completedTabs
    /\ \A m \in tabMessages :
          /\ m.tab = deliveries[m.call].tabId
          /\ m.tab \in completedTabs
    /\ \A c \in Calls :
          {m.attempt : m \in {x \in tabMessages : x.call = c}} = 1..deliveries[c].attempt

\* both calls have a tab, the tab of the second call is loaded and has got
\* a message, the first call is still waiting for its own tab
C23_Witness ==
    /\ deliveries[1].pc = "waitingForLoad"
    /\ deliveries[2].pc = "attempting"
    /\ Cardinality(openTabs) = 2
    /\ completedTabs = {deliveries[2].tabId}
    /\ tabMessages = {[call |-> 2, tab |-> deliveries[2].tabId, attempt |-> 1]}

\* C36: the attempt loop of a call is started at most once: when its tab
\* reports 'complete' several times, only the first report starts the
\* settle delay and the attempts; at later reports the listener is no longer
\* registered and the call is not touched.
C36_LoopStartedOnce ==
    /\ [](\A c \in Calls :
            /\ deliveries[c].loopStarts <= 1
            /\ deliveries[c].loopStarts = 1 => ~deliveries[c].listenerOn)
    /\ [][\A c \in Calls :
            deliveries[c].loopStarts = 1 =>
               (\/ deliveries'[c] = deliveries[c]
                \/ deliveries[c].pc \in {"waitingForRender", "attempting", "retryDelay"}
                     /\ deliveries'[c].pc # "waitingForRender")]_vars

\* the tab of call 1 reported 'complete' a second time while the call was
\* in its attempt loop
C36_Witness ==
    /\ deliveries[1].tabId # 0
    /\ completeReports[deliveries[1].tabId] = MaxReports
    /\ deliveries[1].loopStarts = 1
    /\ deliveries[1].pc = "attempting"
    /\ deliveries[1].attempt = 1

(***************************************************************************)
(* The overlay's preferences.                                              *)
(***************************************************************************)

\* C24: whoever reads the exclusion list first when none is stored (the
\* page-load check of the overlay, or the options page) stores the built-in
\* default set before using it: when the read of a reader has been
\* answered a list is stored, and the seed is stored at most once.
C24_SeedPersisted ==
    /\ [](seedWrites <= 1)
    /\ [][(\/ page.phase = "syncGet" /\ page'.phase # "syncGet"
           \/ optionsPage.loading /\ ~optionsPage'.loading /\ optionsPage'.open)
              => storageSync'.present]_vars

\* C25: after 'close once' on a host at time T, a page load of that host
\* at time now stops before the exclusion check and renders no overlay iff
\* now - T < 600000; with an older time stored the load goes on to the
\* exclusion check as if nothing were stored; and a stored time is never
\* deleted (it is only replaced by a later one).
C25_CloseOnceWindow ==
    /\ [][page.phase = "localGet" /\ page'.phase # "localGet"
             => /\ page'.phase \in {"hiddenOnce", "syncGet"}
                /\ page'.phase = "hiddenOnce"
                      <=> /\ page.tempCloseTime # 0
                          /\ dateNow - page.tempCloseTime < 600000]_vars
    /\ [](page.phase = "syncGet" /\ page.tempCloseTime # 0
             => page.checkedAt - page.tempCloseTime >= 600000)
    /\ [][\A h \in Hosts :
             storageLocal[h] # 0 => storageLocal'[h] >= storageLocal[h]]_vars

\* a page loaded exactly ten minutes after 'close once' has gone on to the
\* exclusion check, the time still stored
C25_Witness ==
    /\ page.phase = "syncGet"
    /\ page.tempCloseTime # 0
    /\ page.checkedAt - page.tempCloseTime = 600000
    /\ storageLocal[page.host] = page.tempCloseTime

\* C26: an exclusion that the overlay or the options page has added, and
\* that the user has not removed since, is in the stored list: no later
\* write of another context drops it.
C26_NoLostExclusion ==
    \A d \in added : Includes(storageSync.list, d)

\* some entry of the list is a suffix of the host
SomeEntryIsSuffix(list, currentHost) ==
    \E k \in 1..Len(list) :
        /\ Len(list[k]) <= Len(currentHost)
        /\ SubSeq(currentHost, Len(currentHost) - Len(list[k]) + 1, Len(currentHost))
               = list[k]

\* C27: a page load that reaches the exclusion check is suppressed by the
\* list it has read (the default set when none is stored) iff some entry
\* of the list is a suffix of the host.
C27_SuffixEntries ==
    [][page.phase = "syncGet" /\ page'.phase # "syncGet"
          => (page'.phase = "hiddenExcluded"
                 <=> SomeEntryIsSuffix(ListOr(page.result, DEFAULT_EXCLUDED_DOMAINS),
                                       page.host))]_vars

\* the overlay is suppressed on a host by the list in effect: the stored
\* list, or the built-in default set when none is stored
Suppressed(stored, currentHost) ==
    SomeIncluded(ListOr(stored, DEFAULT_EXCLUDED_DOMAINS), currentHost)

\* C33: the callback of 'close always' only adds to the exclusions in
\* effect: every host (those of the pages, and x.com) that was suppressed
\* before it is suppressed after it.
C33_CloseAlwaysOnlyAdds ==
    [][(page.phase = "closeAlwaysGet" /\ page'.phase # "closeAlwaysGet")
          => \A h \in Hosts \cup {D_x} :
                Suppressed(storageSync, h) => Suppressed(storageSync', h)]_vars

(***************************************************************************)
(* Sharing a page.                                                         *)
(***************************************************************************)

\* the text behind the metadata block
BodyOf(markdown) == SubSeq(markdown, Len(Metadata) + 1, Len(markdown))

\* C28: whenever scrapePageToMarkdown reports success, the markdown it
\* returns has a body behind the metadata block that is neither empty nor
\* blank; and when the conversion yields an empty or blank text the result
\* is a failure with an error and no markdown.
C28_BodyNonEmptyOnSuccess ==
    \A o \in Origins :
        LET a == userAction[o]
        IN  a.scrapes > 0 =>
               /\ a.result.success =>
                     /\ Len(a.result.markdown) > Len(Metadata)
                     /\ ~IsBlank(BodyOf(a.result.markdown))
                     /\ a.result.error = NoError
               /\ (a.converted # NotConverted /\ IsBlank(a.converted)) =>
                     /\ ~a.result.success
                     /\ a.result.error # NoError
                     /\ a.result.markdown = <<>>

\* the popup asked for a page whose article is one blank: turndown returned
\* the blank and the scrape failed
C28_Witness ==
    /\ pageDoc.doc.content = <<" ">>
    /\ userAction["popup"].scrapes = 1
    /\ userAction["popup"].converted = <<" ">>
    /\ ~userAction["popup"].result.success
    /\ popup.phase = "error"

\* C29: when scrapePageToMarkdown fails for a user action of the overlay
\* or of the popup, it is not called again for that action, nothing is
\* written to the clipboard and no injectToPlatform request is sent: the
\* overlay's handler is at its end, the popup has no markdown and nothing
\* pending.
C29_ExtractionFailureTerminal ==
    /\ \A o \in Origins :
          LET a == userAction[o]
          IN  /\ a.scrapes <= 1
              /\ (a.scrapes = 1 /\ ~a.result.success) =>
                    /\ a.clipboardWrites = 0
                    /\ a.sent = 0
    /\ (userAction["overlay"].scrapes = 1 /\ ~userAction["overlay"].result.success)
          => /\ fab.pc = "restoring"
             /\ fab.icon = "error"
    /\ (popup.phase # "closed" /\ userAction["popup"].scrapes = 1
            /\ ~userAction["popup"].result.success)
          => /\ popup.phase = "error"
             /\ popup.currentMarkdown = <<>>
             /\ popup.pending = {}

\* the overlay's menu handler has ended with the error icon after a failed
\* scrape, and the popup, opened on the same page, shows 'No content
\* found' with its buttons enabled
C29_Witness ==
    /\ fab.pc = "restoring"
    /\ fab.item = "claude"
    /\ userAction["overlay"].scrapes = 1
    /\ ~userAction["overlay"].result.success
    /\ popup.phase = "error"
    /\ userAction["popup"].scrapes = 1
    /\ ~popup.buttons["claude"].disabled

\* C30: in the popup with content a destination button is disabled, and
\* shows the spinner, exactly while its own request is not answered; and
\* when a request ends in failure or in a connection error its button is
\* enabled with its original content again, the error is shown and no
\* other button changes: the other destinations can be picked all along.
C30_FailureDoesNotBlock ==
    /\ [](popup.phase = "content" =>
            /\ popup.currentMarkdown # <<>>
            /\ \A p \in Platforms :
                  popup.buttons[p] = IF p \in popup.pending
                                     THEN Button(TRUE, "spinner")
                                     ELSE Button(FALSE, "original"))
    /\ [][\A p \in Platforms :
             (p \in popup.pending /\ popup'.phase # "closed" /\ p \notin popup'.pending)
                => /\ popup'.buttons[p] = Button(FALSE, "original")
                   /\ popup'.error \in {"Injection failed", "Connection error"}
                   /\ \A q \in Platforms \ {p} : popup'.buttons[q] = popup.buttons[q]]_vars

\* the request for claude has failed, its button is enabled again, and the
\* user has picked chatgpt, whose request is not answered yet
C30_Witness ==
    /\ popup.phase = "content"
    /\ popup.error = "Injection failed"
    /\ popup.pending = {"chatgpt"}
    /\ popup.buttons["claude"] = Button(FALSE, "original")
    /\ popup.buttons["chatgpt"] = Button(TRUE, "spinner")

\* C31: the overlay and the popup show success only for a response with
\* success = true and show a failure for one with success = false: the
\* overlay's button has the check mark after a request only when the
\* response had success, and the error icon when it had not; the popup is
\* closed by a response with success and shows an error after one without.
C31_OutcomeShown ==
    /\ (fab.pc = "restoring" /\ userAction["overlay"].answer = "failure")
          => fab.icon = "error"
    /\ (fab.pc = "restoring" /\ fab.item \in Platforms /\ fab.icon = "check")
          => userAction["overlay"].answer = "success"
    /\ userAction["popup"].answer = "success" => popup.phase = "closed"
    /\ (userAction["popup"].answer = "failure" /\ popup.phase # "closed")
          => popup.error # NoError

\* C39: once the overlay has restored its state, the stored minimized flag
\* of the host equals the displayed state after every sequence of minimize
\* actions and clicks on the button (a flag never stored counts as false);
\* a click on the button of a minimized overlay restores it, stores false
\* and leaves the menu as it is.
C39_MinimizedFlagInSync ==
    /\ [](localMin.read = NoRead => (fab.minimized <=> localMin.value = "true"))
    /\ [][(fab.minimized /\ ~fab'.minimized)
             => \/ /\ localMin'.value = "false"
                   /\ fab'.menuActive = fab.menuActive
                   /\ localMin'.read = localMin.read
                \/ /\ fab' = FabIdle
                   /\ localMin' = [localMin EXCEPT !.read = localMin.value]]_vars

(***************************************************************************)
(* The token display.                                                      *)
(***************************************************************************)

\* C32: getTokenStatus gives 'safe' for a count below 25,000, 'heavy' for
\* a count from 25,000 up to and including 100,000, and 'critical' only for
\* a count above 100,000.
C32_TokenThresholds ==
    tokenStatus # NoStatus =>
        tokenStatus.status = IF tokenCount < 25000
                             THEN "safe"
                             ELSE IF tokenCount <= 100000 THEN "heavy" ELSE "critical"

====
